---- MODULE Spec2Model ----
(***************************************************************************)
(* A model of the EepyOS kernel core: the thread state machine and the     *)
(* priority-aging scheduler (thread.rs, process.rs, resource.rs, main.rs), *)
(* the buddy page allocator and the slab allocator (heap.rs, data.rs) and  *)
(* the Sv39 page-table engine (mmu.rs).                                    *)
(*                                                                         *)
(* Each subsystem has its own variables and its own specification          *)
(* (SpecThread, SpecSched, SpecPage, SpecSlab, SpecSlabS2, SpecMmu); a     *)
(* specification leaves the other subsystems' variables at their initial   *)
(* values.                                                                 *)
(***************************************************************************)
EXTENDS Integers, Sequences, FiniteSets, Bags, TLC

VARIABLES
    \* ---- one thread control block, driven directly (SpecThread)
    tcb,        \* the ThreadControlBlock: state, pc, need, priority
    tlast,      \* the last operation applied to tcb and what it returned
    tpanic,     \* TRUE once an operation on tcb has panicked
    \* ---- the process table and kmain's scheduling loop (SpecSched)
    procs,      \* PROCESS_TABLE: process slot -> None or a process block
    kpc,        \* position of kmain: "choose", "running", "shell", "panic"
    cur,        \* the <<process slot, thread slot>> of scheduled_thread
    order,      \* history: the threads activated so far, oldest first
    sinceRun,   \* history: per thread, activations since it last ran
    \* ---- the buddy page allocator (SpecPage)
    pa,         \* PAGE_ALLOCATOR: bitmaps, heads, links, panic flag
    live,       \* blocks handed out and not yet returned: <<page, grain>>
    freedSingly,\* history: free pages whose last user free was one page
    plast,      \* history: the last call made to the page allocator (SpecPage)
                \* or all the calls made so far (SpecPageS1)
    \* ---- the slab allocator (SpecSlab, SpecSlabS2)
    slab,       \* SLAB_ALLOCATOR.headers, sorted by slot_size
    slabLive,   \* the slots handed out: <<slot_size, index>>
    slast,      \* history: the last call made to the slab allocator
    s2,         \* position and counters of the slab round-trip scenario
    \* ---- the Sv39 page tables (SpecMmu)
    pt,         \* table id -> entry index -> entry
    installed,  \* history: the mappings set_map has installed
    mres,       \* the last translation: [v, res]
    satp,       \* the hart's satp register (SpecActivate)
    \* ---- the bump allocator (SpecBump)
    bump,       \* BUMP_ALLOCATOR: offset, plus the history of its calls
    \* ---- one Mutex shared by several contexts (SpecMutex)
    mtx,        \* the Lock's held flag, each context's position and guard
    \* ---- one ResourceManager (SpecResource)
    rm,         \* the slots, plus the last claim and what it returned
    \* ---- references to one page table taken by several contexts (SpecRef)
    refs,       \* each context's position and the references it holds
    \* ---- the scheduling loop with its traps recorded (SpecSchedTrap)
    ktrap,      \* history: the last trap cause, the threads killed by cause 2
    \* ---- one AtomicBitVec (SpecBitVec)
    bvec        \* the words of the vector, its length, the last call made

threadVars == <<tcb, tlast, tpanic>>
schedVars  == <<procs, kpc, cur, order, sinceRun>>
pageVars   == <<pa, live, freedSingly, plast>>
slabVars   == <<slab, slabLive, slast, s2>>
mmuVars    == <<pt, installed, mres, satp>>
auxVars    == <<bump, mtx, rm, refs, ktrap, bvec>>
vars == <<threadVars, schedVars, pageVars, slabVars, mmuVars, auxVars>>

\* Op applied to the value of e: a name for an intermediate result, which
\* is evaluated once.
With(Op(_), e) == CHOOSE y \in {Op(x) : x \in {e}} : TRUE

\* Option<T>: None is the empty sequence and Some(x) is <<x>>.
None == <<>>

Some(x) == <<x>>

(***************************************************************************)
(* Threads (thread.rs)                                                     *)
(***************************************************************************)

ThreadStates == {"Interrupted", "Running", "Ready", "Zombie"}

\* Priorities a thread is created with.
Priorities == {0, 1, 3, 5}

\* The entry address a fresh thread starts at.
EntryPc == 4096

\* Program counters the context-switch trampoline hands back.
PcValues == {4100}

\* ThreadControlBlock::new: Ready, need = priority, handle lock free.
NewThread(priority, pc) ==
    [state |-> "Ready", pc |-> pc, need |-> priority, priority |-> priority,
     handle_lock |-> FALSE]

ActivateEnterKeepNeed(t) ==
    IF t.state = "Ready"
    THEN [res |-> "Ok", tcb |-> [t EXCEPT !.state = "Running"]]
    ELSE [res |-> "ThreadNotReady", tcb |-> t]

\* ThreadControlBlock::activate up to the call of the trampoline. need and
\* priority stay far below 2^32 in this model, so u32 arithmetic is exact.
ActivateEnter(t) ==
    IF t.state = "Ready"
    THEN [res |-> "Ok",
          tcb |-> [t EXCEPT !.need = t.priority, !.state = "Running"]]
    ELSE [res |-> "ThreadNotReady", tcb |-> t]

\* The return from the trampoline with the state left as it was.
ActivateReturnStillRunning(t, pc) == [t EXCEPT !.pc = pc]

\* ThreadControlBlock::activate after the trampoline has returned result.pc.
ActivateReturn(t, pc) == [t EXCEPT !.pc = pc, !.state = "Interrupted"]

ConsiderNoAging(t, best) ==
    IF t.state = "Ready"
    THEN [tcb |-> t, ret |-> IF t.need > best THEN Some(t.need) ELSE None]
    ELSE [tcb |-> t, ret |-> None]

\* consider with the need raised by one instead of by the priority.
ConsiderAgingByOne(t, best) ==
    IF t.state = "Ready"
    THEN [tcb |-> [t EXCEPT !.need = t.need + 1],
          ret |-> IF t.need + 1 > best THEN Some(t.need + 1) ELSE None]
    ELSE [tcb |-> t, ret |-> None]

\* ThreadControlBlock::consider: ret is Some(new need) or None.
Consider(t, best) ==
    IF t.state = "Ready"
    THEN LET n == t.need + t.priority
         IN  [tcb |-> [t EXCEPT !.need = n],
              ret |-> IF n > best THEN Some(n) ELSE None]
    ELSE [tcb |-> t, ret |-> None]

KillNoPanic(t) == [panic |-> FALSE, tcb |-> [t EXCEPT !.state = "Zombie"]]

\* ThreadControlBlock::kill.
Kill(t) ==
    IF t.state = "Running"
    THEN [panic |-> TRUE, tcb |-> t]
    ELSE [panic |-> FALSE, tcb |-> [t EXCEPT !.state = "Zombie"]]

\* resolve_interrupt without the test of the state.
ResolveInterruptAnyState(t, synchronous) ==
    [res |-> "Ok",
     tcb |-> [t EXCEPT !.state = "Ready",
                       !.pc = IF synchronous THEN t.pc + 4 ELSE t.pc]]

\* ThreadControlBlock::resolve_interrupt.
ResolveInterrupt(t, synchronous) ==
    IF t.state = "Interrupted"
    THEN [res |-> "Ok",
          tcb |-> [t EXCEPT !.state = "Ready",
                            !.pc = IF synchronous THEN t.pc + 4 ELSE t.pc]]
    ELSE [res |-> "ThreadNotInterrupted", tcb |-> t]

\* ThreadHandle::resolve_interrupt_or_kill.
ResolveInterruptOrKill(t, synchronous) ==
    LET r == ResolveInterrupt(t, synchronous)
    IN  IF r.res = "Ok" THEN [panic |-> FALSE, tcb |-> r.tcb] ELSE Kill(r.tcb)

\* impl Resource for Option<ThreadControlBlock>.
ThreadExhausted(slot) == slot = None \/ slot[1].state = "Zombie"

(***************************************************************************)
(* Processes and the scheduler (consts.rs, resource.rs, process.rs,        *)
(* interrupt.rs, exception.rs, syscall.rs, main.rs)                        *)
(***************************************************************************)

MAX_PROCESSES == 4

MAX_THREADS == 2

ProcSlots == 0 .. (MAX_PROCESSES - 1)

ThreadSlots == 0 .. (MAX_THREADS - 1)

\* ResourceManager::claim_first / emplace_first: the first exhausted slot,
\* given for each slot whether it is exhausted.
FirstExhausted(exh) ==
    IF \E i \in DOMAIN exh : exh[i]
    THEN Some(CHOOSE i \in DOMAIN exh :
                 exh[i] /\ \A j \in DOMAIN exh : exh[j] => i <= j)
    ELSE None

\* ProcessControlBlock::new: the main thread is claimed into the first
\* exhausted slot of an all-None thread table, which is slot 0.
NewProcess(priority) ==
    LET empty == [i \in ThreadSlots |-> None]
        index == FirstExhausted([i \in ThreadSlots |->
                                    ThreadExhausted(empty[i])])
    IN  [status |-> "Ready", priority |-> priority,
         threads |-> [empty EXCEPT
                         ![index[1]] = Some(NewThread(priority, EntryPc))]]

\* impl Resource for Option<ProcessControlBlock>.
ProcExhausted(slot) == slot = None \/ slot[1].status = "Zombie"

\* ResourceManager::claim_first on the process table.
ClaimFirstProcess(tbl, pcb) ==
    LET index == FirstExhausted([i \in ProcSlots |-> ProcExhausted(tbl[i])])
    IN  IF index = None
        THEN [res |-> "NoSpaceAvailable", tbl |-> tbl]
        ELSE [res |-> "Ok", tbl |-> [tbl EXCEPT ![index[1]] = Some(pcb)]]

GetThread(tbl, h) == tbl[h[1]][1].threads[h[2]][1]

SetThread(tbl, h, t) ==
    [tbl EXCEPT ![h[1]] =
        Some([tbl[h[1]][1] EXCEPT !.threads[h[2]] = Some(t)])]

\* A ThreadHandle that keeps the handle lock when it is dropped.
DropHandleKeepingLock(tbl, handle) == tbl

\* Dropping a ThreadHandle releases the thread's handle lock.
DropHandle(tbl, handle) ==
    IF handle = None
    THEN tbl
    ELSE SetThread(tbl, handle[1],
                   [GetThread(tbl, handle[1]) EXCEPT !.handle_lock = FALSE])

\* CandidateThread::default.
DefaultCandidate == [best |-> 0, handle |-> None]

RECURSIVE Choose(_, _, _, _)
\* ProcessControlBlock::choose for process pi, from thread slot ti on. A
\* thread is skipped when it is exhausted or its handle is already claimed;
\* a handle that does not become the candidate is dropped at once, and the
\* handle of a replaced candidate is dropped with it.
Choose(tbl, candidate, pi, ti) ==
    IF ti >= MAX_THREADS
    THEN [tbl |-> tbl, candidate |-> candidate]
    ELSE With(LAMBDA slot :
           IF ThreadExhausted(slot) \/ slot[1].handle_lock
           THEN Choose(tbl, candidate, pi, ti + 1)
           ELSE With(LAMBDA r :
                  IF r.ret = None
                  THEN Choose(SetThread(tbl, <<pi, ti>>, r.tcb),
                              candidate, pi, ti + 1)
                  ELSE Choose(
                         SetThread(DropHandle(tbl, candidate.handle),
                                   <<pi, ti>>,
                                   [r.tcb EXCEPT !.handle_lock = TRUE]),
                         [best |-> r.ret[1], handle |-> Some(<<pi, ti>>)],
                         pi, ti + 1),
                  Consider(slot[1], candidate.best)),
           tbl[pi][1].threads[ti])

RECURSIVE ChooseFrom(_, _, _)
\* The fold of choose_next_thread from process slot pi on.
ChooseFrom(tbl, candidate, pi) ==
    IF pi >= MAX_PROCESSES
    THEN [tbl |-> tbl, candidate |-> candidate]
    ELSE IF ProcExhausted(tbl[pi])
         THEN ChooseFrom(tbl, candidate, pi + 1)
         ELSE With(LAMBDA r : ChooseFrom(r.tbl, r.candidate, pi + 1),
                   Choose(tbl, candidate, pi, 0))

\* ResourceManager::choose_next_thread.
ChooseNextThread(tbl) ==
    With(LAMBDA r : [tbl |-> r.tbl, handle |-> r.candidate.handle],
         ChooseFrom(tbl, DefaultCandidate, 0))

\* syscall.rs: handle_syscall, on the thread's a0.
HandleSyscall(t, a0) ==
    CASE a0 = 0 -> Kill(t)
      [] a0 = 1 -> ResolveInterruptOrKill(t, TRUE)
      [] OTHER  -> [panic |-> TRUE, tcb |-> t]

\* interrupt.rs: handle_interrupt, on cause ^ IS_INTERRUPT_MASK.
\* handle_interrupt with the timer interrupt treated like the others.
HandleInterruptKillingAll(t, reason) ==
    CASE reason \in {1, 5, 9} -> Kill(t)
      [] OTHER -> [panic |-> TRUE, tcb |-> t]

HandleInterrupt(t, reason) ==
    CASE reason = 1 -> Kill(t)
      [] reason = 5 -> ResolveInterruptOrKill(t, FALSE)
      [] reason = 9 -> Kill(t)
      [] OTHER      -> [panic |-> TRUE, tcb |-> t]

\* handle_exception with the illegal instruction stepped over.
HandleExceptionResume(t, cause, a0) ==
    CASE cause = 2               -> ResolveInterruptOrKill(t, TRUE)
      [] cause \in {4, 6, 12}    -> Kill(t)
      [] cause \in {8, 9}        -> HandleSyscall(t, a0)
      [] OTHER                   -> [panic |-> TRUE, tcb |-> t]

\* exception.rs: handle_exception.
HandleException(t, cause, a0) ==
    CASE cause \in {2, 4, 6, 12} -> Kill(t)
      [] cause \in {8, 9}        -> HandleSyscall(t, a0)
      [] OTHER                   -> [panic |-> TRUE, tcb |-> t]


(***************************************************************************)
(* SpecThread: one thread control block driven through its operations in   *)
(* any order (activate, the trap that ends an activation, consider,        *)
(* resolve_interrupt, kill).                                               *)
(***************************************************************************)

\* consider is not applied once need would pass this value.
MaxNeed == 12

SchedIdle ==
    /\ procs = <<>>
    /\ kpc = "off"
    /\ cur = None
    /\ order = <<>>
    /\ sinceRun = <<>>

PageIdle ==
    /\ pa = None
    /\ live = {}
    /\ freedSingly = {}
    /\ plast = None

SlabIdle ==
    /\ slab = <<>>
    /\ slabLive = {}
    /\ slast = None
    /\ s2 = None

MmuIdle ==
    /\ pt = <<>>
    /\ installed = {}
    /\ satp = None
    /\ mres = None

BumpIdle == bump = None

MutexIdle == mtx = None

ResourceIdle == rm = None

RefIdle == refs = None

TrapIdle == ktrap = None

BitVecIdle == bvec = None

AuxIdle ==
    /\ BumpIdle /\ MutexIdle /\ ResourceIdle /\ RefIdle /\ TrapIdle
    /\ BitVecIdle

InitThread ==
    /\ \E p \in Priorities :
          /\ tcb = NewThread(p, EntryPc)
          /\ tlast = [op |-> "new", from |-> NewThread(p, EntryPc),
                      res |-> "Ok", sync |-> FALSE]
    /\ tpanic = FALSE
    /\ SchedIdle /\ PageIdle /\ SlabIdle /\ MmuIdle /\ AuxIdle

ThreadIdle ==
    /\ tcb = None
    /\ tlast = None
    /\ tpanic = FALSE

\* activate(hart_id) up to the jump into the thread.
TActivate ==
    /\ ~tpanic
    /\ LET r == ActivateEnter(tcb)
       IN  /\ tcb' = r.tcb
           /\ tlast' = [op |-> "activate", from |-> tcb, res |-> r.res,
                        sync |-> FALSE]
    /\ UNCHANGED tpanic

\* The trap that brings a Running thread back into activate.
TTrap ==
    /\ ~tpanic
    /\ tcb.state = "Running"
    /\ \E pc \in PcValues :
          /\ tcb' = ActivateReturn(tcb, pc)
          /\ tlast' = [op |-> "trap", from |-> tcb, res |-> "Ok",
                       sync |-> FALSE]
    /\ UNCHANGED tpanic

TConsider ==
    /\ ~tpanic
    /\ tcb.need + tcb.priority <= MaxNeed
    /\ \E best \in {0, 4, 8} :
          LET r == Consider(tcb, best)
          IN  /\ tcb' = r.tcb
              /\ tlast' = [op |-> "consider", from |-> tcb,
                           res |-> IF r.ret = None THEN "None" ELSE "Some",
                           sync |-> FALSE]
    /\ UNCHANGED tpanic

TResolve ==
    /\ ~tpanic
    /\ \E synchronous \in BOOLEAN :
          LET r == ResolveInterrupt(tcb, synchronous)
          IN  /\ tcb' = r.tcb
              /\ tlast' = [op |-> "resolve_interrupt", from |-> tcb,
                           res |-> r.res, sync |-> synchronous]
    /\ UNCHANGED tpanic

TKill ==
    /\ ~tpanic
    /\ LET r == Kill(tcb)
       IN  /\ tcb' = r.tcb
           /\ tpanic' = r.panic
           /\ tlast' = [op |-> "kill", from |-> tcb,
                        res |-> IF r.panic THEN "panic" ELSE "Ok",
                        sync |-> FALSE]

NextThread ==
    \/ (TActivate /\ UNCHANGED <<schedVars, pageVars, slabVars, mmuVars, auxVars>>)
    \/ (TTrap /\ UNCHANGED <<schedVars, pageVars, slabVars, mmuVars, auxVars>>)
    \/ (TConsider /\ UNCHANGED <<schedVars, pageVars, slabVars, mmuVars, auxVars>>)
    \/ (TResolve /\ UNCHANGED <<schedVars, pageVars, slabVars, mmuVars, auxVars>>)
    \/ (TKill /\ UNCHANGED <<schedVars, pageVars, slabVars, mmuVars, auxVars>>)

SpecThread == InitThread /\ [][NextThread]_vars

\* C1: every operation on a thread follows the transition table: activate
\* succeeds only from Ready and otherwise returns ThreadNotReady leaving the
\* thread as it was; resolve_interrupt succeeds only from Interrupted, moving
\* the thread to Ready, and otherwise returns ThreadNotInterrupted leaving
\* the thread as it was; kill moves Ready, Interrupted and Zombie threads to
\* Zombie and panics on a Running thread.
Inv_C1 ==
    /\ tlast.op = "activate" =>
          IF tlast.from.state = "Ready"
          THEN tlast.res = "Ok" /\ tcb.state = "Running"
          ELSE tlast.res = "ThreadNotReady" /\ tcb = tlast.from
    /\ tlast.op = "trap" =>
          tlast.from.state = "Running" /\ tcb.state = "Interrupted"
    /\ tlast.op = "resolve_interrupt" =>
          IF tlast.from.state = "Interrupted"
          THEN /\ tlast.res = "Ok"
               /\ tcb.state = "Ready"
               /\ tcb.pc = tlast.from.pc + (IF tlast.sync THEN 4 ELSE 0)
          ELSE tlast.res = "ThreadNotInterrupted" /\ tcb = tlast.from
    /\ tlast.op = "kill" =>
          IF tlast.from.state = "Running"
          THEN tpanic /\ tlast.res = "panic"
          ELSE ~tpanic /\ tlast.res = "Ok" /\ tcb.state = "Zombie"
    /\ tpanic => tlast.op = "kill"

\* A kill has panicked on a Running thread after the thread had been
\* through a full activate / trap / resolve_interrupt cycle (pc moved on).
Wit_C1 ==
    /\ tpanic
    /\ tlast.op = "kill"
    /\ tlast.from.state = "Running"
    /\ tlast.from.pc = 4104

(***************************************************************************)
(* SpecSched: kmain spawns processes into PROCESS_TABLE and then runs the  *)
(* scheduling loop: choose_next_thread, activate, and the handling of the  *)
(* trap that ended the activation.                                         *)
(***************************************************************************)

\* The activation history keeps the first MaxOrder activations.
MaxOrder == 5

\* kmain spawns at most this many processes before it enters the loop.
MaxSpawn == 3

MaxPriority == CHOOSE p \in Priorities : \A q \in Priorities : q <= p

\* The per-thread count of activations since its last run saturates here.
SinceCap == MaxSpawn * MaxPriority

Handles == ProcSlots \X ThreadSlots

Spawned(tbl) == Cardinality({i \in ProcSlots : tbl[i] # None})

\* The trap causes the loop is driven with: <<is interrupt, code>>.
Causes ==
    ({TRUE} \X {1, 5, 9, 3}) \cup ({FALSE} \X {2, 5, 8, 9, 24})

\* The values of a0 a thread traps with; a0 is read by the syscall causes
\* (8 and 9) only.
SyscallCodes(cause) ==
    IF ~cause[1] /\ cause[2] \in {8, 9} THEN {0, 1, 2} ELSE {0}

InitSched ==
    /\ procs = [i \in ProcSlots |-> None]
    /\ kpc = "spawn"
    /\ cur = None
    /\ order = <<>>
    /\ sinceRun = [h \in Handles |-> 0]
    /\ ThreadIdle /\ PageIdle /\ SlabIdle /\ MmuIdle /\ AuxIdle

\* kmain: claim_first(Some(ProcessControlBlock::new(..))).expect(..).
KSpawn ==
    /\ kpc = "spawn"
    /\ Spawned(procs) < MaxSpawn
    /\ \E priority \in Priorities :
          LET r == ClaimFirstProcess(procs, NewProcess(priority))
          IN  /\ procs' = r.tbl
              /\ kpc' = IF r.res = "Ok" THEN "spawn" ELSE "panic"
    /\ UNCHANGED <<cur, order, sinceRun>>

\* kmain reaches the scheduling loop.
KEnterLoop ==
    /\ kpc = "spawn"
    /\ kpc' = "choose"
    /\ UNCHANGED <<procs, cur, order, sinceRun>>

\* The thread slot h holds a thread that is not exhausted.
Live(tbl, h) ==
    /\ ~ProcExhausted(tbl[h[1]])
    /\ ~ThreadExhausted(tbl[h[1]][1].threads[h[2]])

\* The first half of a loop iteration: choose_next_thread and activate up
\* to the jump into the chosen thread.
KScheduleLoop ==
    /\ kpc = "choose"
    /\ \E r \in {ChooseNextThread(procs)} :
          IF r.handle = None
          THEN /\ procs' = r.tbl
               /\ kpc' = "shell"
               /\ UNCHANGED cur
          ELSE \E h \in {r.handle[1]} :
               \E a \in {ActivateEnter(GetThread(r.tbl, h))} :
                  IF a.res = "Ok"
                  THEN /\ procs' = SetThread(r.tbl, h, a.tcb)
                       /\ kpc' = "running"
                       /\ cur' = r.handle
                  ELSE /\ procs' = DropHandle(r.tbl, r.handle)
                       /\ kpc' = "shell"
                       /\ UNCHANGED cur

\* The first half of a loop iteration, with the activation entered in the
\* history.
KSchedule ==
    /\ KScheduleLoop
    /\ IF kpc' = "running"
       THEN /\ order' = IF Len(order) < MaxOrder
                        THEN Append(order, cur'[1])
                        ELSE order
            /\ sinceRun' =
                  [g \in Handles |->
                     IF g = cur'[1] \/ ~Live(procs', g) THEN 0
                     ELSE IF sinceRun[g] < SinceCap
                          THEN sinceRun[g] + 1
                          ELSE sinceRun[g]]
       ELSE UNCHANGED <<order, sinceRun>>

\* The second half: the thread traps, activate returns, the trap is handled
\* and the handle is dropped at the end of the iteration.
KTrapWith(cause, pc, a0) ==
    /\ kpc = "running"
    /\ LET h == cur[1]
           t == ActivateReturn(GetThread(procs, h), pc)
           r == IF cause[1]
                THEN HandleInterrupt(t, cause[2])
                ELSE HandleException(t, cause[2], a0)
       IN  IF r.panic
           THEN /\ procs' = SetThread(procs, h, r.tcb)
                /\ kpc' = "panic"
                /\ UNCHANGED cur
           ELSE /\ procs' = DropHandle(SetThread(procs, h, r.tcb), cur)
                /\ kpc' = "choose"
                /\ cur' = None
    /\ UNCHANGED <<order, sinceRun>>

\* The trap of the running thread, with any cause.
KTrap ==
    \E cause \in Causes, pc \in PcValues : \E a0 \in SyscallCodes(cause) :
        KTrapWith(cause, pc, a0)

NextSched ==
    \/ (KSpawn /\ UNCHANGED <<threadVars, pageVars, slabVars, mmuVars, auxVars>>)
    \/ (KEnterLoop /\ UNCHANGED <<threadVars, pageVars, slabVars, mmuVars, auxVars>>)
    \/ (KSchedule /\ UNCHANGED <<threadVars, pageVars, slabVars, mmuVars, auxVars>>)
    \/ (KTrap /\ UNCHANGED <<threadVars, pageVars, slabVars, mmuVars, auxVars>>)

SpecSched == InitSched /\ [][NextSched]_vars

\* The threads in the table, as handles.
Threads(tbl) ==
    {h \in Handles : tbl[h[1]] # None /\ tbl[h[1]][1].threads[h[2]] # None}

\* The loop is running and every thread spawned has come back Ready from
\* each of its runs so far (none was killed).
AllStayReady ==
    /\ kpc \in {"choose", "running"}
    /\ \A h \in Threads(procs) : GetThread(procs, h).state # "Zombie"

\* The priorities of the threads activated so far, oldest first.
OrderPriorities ==
    [i \in 1 .. Len(order) |-> GetThread(procs, order[i]).priority]

AgreesWith(seq, expected) ==
    \A i \in 1 .. Len(seq) : i <= Len(expected) => seq[i] = expected[i]

\* Exactly two threads, T1 of priority 3 and T2 of priority 5.
TwoThreads35 ==
    /\ Cardinality(Threads(procs)) = 2
    /\ {GetThread(procs, h).priority : h \in Threads(procs)} = {3, 5}

PriorityOf(h) == GetThread(procs, h).priority

MaxP == CHOOSE p \in {PriorityOf(h) : h \in Threads(procs)} :
            \A h \in Threads(procs) : PriorityOf(h) <= p

MinP == CHOOSE p \in {PriorityOf(h) : h \in Threads(procs)} :
            \A h \in Threads(procs) : PriorityOf(h) >= p

\* k threads (k >= 1), none killed, all of priority at least 1.
StayReadyPositive ==
    /\ AllStayReady
    /\ Threads(procs) # {}
    /\ \A h \in Threads(procs) : PriorityOf(h) >= 1

\* C10 as stated: with k threads that stay Ready and priorities >= 1, every
\* window of max p / min p (rounded up) consecutive activations activates
\* each thread: no thread has been left out of that many activations in a
\* row.
CE_C10 ==
    StayReadyPositive =>
        \A h \in Threads(procs) :
            sinceRun[h] < (MaxP + MinP - 1) \div MinP

\* C10 amended: with k threads that stay Ready and priorities >= 1, every
\* window of floor(k * max p / min p) consecutive activations activates
\* each thread: no thread has been left out of that many activations in a
\* row.
Thm_C10 ==
    StayReadyPositive =>
        \A h \in Threads(procs) :
            sinceRun[h] <
                (Cardinality(Threads(procs)) * MaxP) \div MinP

\* Three threads of different priorities, and one of them has been left
\* out of as many activations in a row as the amended window allows.
Wit_C10 ==
    /\ StayReadyPositive
    /\ Cardinality(Threads(procs)) = 3
    /\ MaxP > MinP
    /\ \E h \in Threads(procs) :
          sinceRun[h] + 1 = (Cardinality(Threads(procs)) * MaxP) \div MinP

(***************************************************************************)
(* The buddy page allocator (heap.rs: PageLink, PageFreeList,              *)
(* PageAllocator). A page pointer is modelled by its page number, the      *)
(* offset from RAM_BASE in pages; RAM is num_pages pages long.  The        *)
(* allocator is a record                                                   *)
(*   num_pages  RAM_LENGTH / PAGE_SIZE                                     *)
(*   avail      grain -> the indices whose bit is set in `available`       *)
(*   head       grain -> `pages`, a page number or NullPage                *)
(*   link       page number -> the PageLink stored in that page            *)
(*   panic      TRUE once an assertion has failed                          *)
(* An operation applied to a panicked allocator does nothing.              *)
(***************************************************************************)

\* The null pointer of AtomicPtr::default() and ptr::null_mut().
NullPage == 0 - 1

RECURSIVE Ilog2(_)
\* usize::ilog2, for n >= 1.
Ilog2(n) == IF n <= 1 THEN 0 ELSE 1 + Ilog2(n \div 2)

\* The highest grain: depth in PageAllocator::init.
Depth(a) == Ilog2(a.num_pages)

\* The length of the bit vector of the grain-g list (PageFreeList::new).
BitLen(a, g) == a.num_pages \div (2 ^ g)

\* AtomicBitVec::get: None when index is out of range.
AvailGet(a, g, index) ==
    IF index >= 0 /\ index < BitLen(a, g)
    THEN Some(index \in a.avail[g])
    ELSE None

\* AtomicBitVec::set: nothing is written when index is out of range.
AvailSet(a, g, index, value) ==
    IF index >= 0 /\ index < BitLen(a, g)
    THEN [a EXCEPT !.avail[g] = IF value THEN @ \cup {index}
                                 ELSE @ \ {index}]
    ELSE a

Panicked(a) == [a EXCEPT !.panic = TRUE]

\* RAM_RANGE.contains(page).
InRam(a, page) == page >= 0 /\ page < a.num_pages

\* PageFreeList::get_index: ok is FALSE when the assertion fails.
GetIndex(g, page) ==
    [ok |-> page >= 0 /\ page % (2 ^ g) = 0, index |-> page \div (2 ^ g)]

\* PageFreeList::get_page: ok is FALSE when the assertion fails.
GetPage(a, g, index) ==
    [ok |-> InRam(a, index * (2 ^ g)), page |-> index * (2 ^ g)]

PageLinkAllocateNoStitch(link, self) ==
    IF link[self].next = self
    THEN [ok |-> link[self].prev = self, link |-> link, ret |-> None]
    ELSE [ok |-> TRUE, link |-> link, ret |-> Some(link[self].next)]

\* PageLink::allocate. ok is FALSE when the assertion fails or a null link
\* is followed.
PageLinkAllocate(link, self) ==
    LET prev == link[self].prev
        next == link[self].next
    IN  IF next = self
        THEN [ok |-> prev = next, link |-> link, ret |-> None]
        ELSE IF prev = NullPage \/ next = NullPage
             THEN [ok |-> FALSE, link |-> link, ret |-> None]
             ELSE LET l1 == [link EXCEPT ![prev].next = next]
                      l2 == [l1 EXCEPT ![next].prev = prev]
                  IN  [ok |-> TRUE, link |-> l2, ret |-> Some(next)]

\* PageLink::deallocate, with `other` the head of the free list.
PageLinkDeallocate(link, head, self) ==
    IF head = NullPage
    THEN [link |-> [link EXCEPT ![self] = [prev |-> self, next |-> self]],
          head |-> self]
    ELSE LET next == link[head].next
             l1 == [link EXCEPT ![head].next = self]
             l2 == [l1 EXCEPT ![self] = [prev |-> head, next |-> next]]
             l3 == [l2 EXCEPT ![next].prev = self]
         IN  [link |-> l3, head |-> head]

\* The assertion made on a new head: null, or a page whose bit is set.
HeadIsFree(a, g) ==
    \/ a.head[g] = NullPage
    \/ /\ GetIndex(g, a.head[g]).ok
       /\ AvailGet(a, g, GetIndex(g, a.head[g]).index) = Some(TRUE)

\* PageFreeList::allocate_page_exact, after the bit has been cleared (a1)
\* and the page unlinked (r).
AllocatePageExactLinked(a1, g, r) ==
    IF ~r.ok THEN Panicked(a1)
    ELSE IF r.ret = None
    THEN [a1 EXCEPT !.head[g] = NullPage]
    ELSE With(LAMBDA a2 : IF HeadIsFree(a2, g) THEN a2 ELSE Panicked(a2),
              [a1 EXCEPT !.link = r.link, !.head[g] = r.ret[1]])

\* PageFreeList::allocate_page_exact.
AllocatePageExact(a, g, index, page) ==
    IF a.panic THEN a
    ELSE IF AvailGet(a, g, index) # Some(TRUE) THEN Panicked(a)
    ELSE With(LAMBDA a1 :
                 With(LAMBDA r : AllocatePageExactLinked(a1, g, r),
                      PageLinkAllocate(a1.link, page)),
              AvailSet(a, g, index, FALSE))

\* PageFreeList::allocate_target_page.
AllocateTargetPage(a, g, page) ==
    IF a.panic THEN a
    ELSE IF ~GetIndex(g, page).ok THEN Panicked(a)
    ELSE AllocatePageExact(a, g, GetIndex(g, page).index, page)

\* PageFreeList::allocate_page: ret is Some(page) or None.
AllocatePage(a, g) ==
    IF a.panic \/ a.head[g] = NullPage
    THEN [a |-> a, ret |-> None]
    ELSE With(LAMBDA a1 :
                 IF a1.panic THEN [a |-> a1, ret |-> None]
                 ELSE IF ~HeadIsFree(a1, g)
                      THEN [a |-> Panicked(a1), ret |-> None]
                      ELSE [a |-> a1, ret |-> Some(a.head[g])],
              AllocateTargetPage(a, g, a.head[g]))

\* index ^ 1.
BuddyIndex(index) == IF index % 2 = 0 THEN index + 1 ELSE index - 1

\* index & !1.
LowerIndex(index) == index - (index % 2)

\* The else branch of deallocate_page_exact: the bit is set and the page is
\* linked after the head of the list.
DeallocateOntoList(a, g, index, page) ==
    IF ~InRam(a, page) THEN [a |-> Panicked(a), ret |-> None]
    ELSE With(LAMBDA a1 :
                 With(LAMBDA r :
                         [a |-> [a1 EXCEPT !.link = r.link,
                                           !.head[g] = r.head],
                          ret |-> None],
                      PageLinkDeallocate(a1.link, a1.head[g], page)),
              AvailSet(a, g, index, TRUE))

DeallocatePageExactKeepBuddy(a, g, index, page) ==
    IF a.panic THEN [a |-> a, ret |-> None]
    ELSE IF AvailGet(a, g, BuddyIndex(index)) = Some(TRUE)
    THEN [a |-> a, ret |-> Some(GetPage(a, g, LowerIndex(index)).page)]
    ELSE DeallocateOntoList(a, g, index, page)

DeallocatePageExactNoMerge(a, g, index, page) ==
    IF a.panic THEN [a |-> a, ret |-> None]
    ELSE DeallocateOntoList(a, g, index, page)

\* PageFreeList::deallocate_page_exact: ret is Some(coalesced block) when
\* the buddy was free, and None when the block went onto this list.
DeallocatePageExact(a, g, index, page) ==
    IF a.panic THEN [a |-> a, ret |-> None]
    ELSE IF AvailGet(a, g, BuddyIndex(index)) = Some(TRUE)
    THEN IF ~GetPage(a, g, BuddyIndex(index)).ok
         THEN [a |-> Panicked(a), ret |-> None]
         ELSE With(LAMBDA a1 :
                      IF a1.panic THEN [a |-> a1, ret |-> None]
                      ELSE IF ~GetPage(a, g, LowerIndex(index)).ok
                      THEN [a |-> Panicked(a1), ret |-> None]
                      ELSE [a |-> a1,
                            ret |-> Some(GetPage(a, g,
                                                 LowerIndex(index)).page)],
                   AllocateTargetPage(a, g,
                                      GetPage(a, g, BuddyIndex(index)).page))
    ELSE DeallocateOntoList(a, g, index, page)

\* PageFreeList::deallocate_page.
ListDeallocatePage(a, g, page) ==
    IF a.panic THEN [a |-> a, ret |-> None]
    ELSE IF ~GetIndex(g, page).ok THEN [a |-> Panicked(a), ret |-> None]
    ELSE DeallocatePageExact(a, g, GetIndex(g, page).index, page)

\* PageFreeList::deallocate_page_from_index.
ListDeallocatePageFromIndex(a, g, index) ==
    IF a.panic THEN [a |-> a, ret |-> None]
    ELSE IF ~GetPage(a, g, index).ok THEN [a |-> Panicked(a), ret |-> None]
    ELSE DeallocatePageExact(a, g, index, GetPage(a, g, index).page)

RECURSIVE DeallocatePage(_, _, _)
\* PageAllocator::deallocate_page: coalesces upwards while the list of the
\* grain returns a coalesced block.
DeallocatePage(a, page, grain) ==
    IF a.panic THEN [a |-> a, res |-> "panic"]
    ELSE IF grain > Depth(a) THEN [a |-> a, res |-> "OutOfBounds"]
    ELSE With(LAMBDA r :
                 IF r.a.panic THEN [a |-> r.a, res |-> "panic"]
                 ELSE IF r.ret = None THEN [a |-> r.a, res |-> "Ok"]
                 ELSE DeallocatePage(r.a, r.ret[1], grain + 1),
              ListDeallocatePage(a, grain, page))

\* PageAllocator::deallocate_page_from_index.
DeallocatePageFromIndex(a, index, grain) ==
    IF a.panic THEN [a |-> a, res |-> "panic"]
    ELSE IF grain > Depth(a) THEN [a |-> a, res |-> "OutOfBounds"]
    ELSE With(LAMBDA r :
                 IF r.a.panic THEN [a |-> r.a, res |-> "panic"]
                 ELSE IF r.ret = None THEN [a |-> r.a, res |-> "Ok"]
                 ELSE DeallocatePage(r.a, r.ret[1], grain + 1),
              ListDeallocatePageFromIndex(a, grain, index))

RECURSIVE FindBlock(_, _)
\* The find_map of split_block: the first list from grain on whose
\* allocate_page returns a block.
FindBlock(a, grain) ==
    IF a.panic \/ grain > Depth(a)
    THEN [a |-> a, ret |-> None, grain |-> grain]
    ELSE With(LAMBDA r :
                 IF r.a.panic \/ r.ret # None
                 THEN [a |-> r.a, ret |-> r.ret, grain |-> grain]
                 ELSE FindBlock(r.a, grain + 1),
              AllocatePage(a, grain))

RECURSIVE SplitDown(_, _, _, _)
\* The while loop of split_block: at each grain below the block's, the
\* upper half (index + 1) goes onto the free list of that grain.
SplitDown(a, block, grain, target_grain) ==
    IF a.panic \/ grain <= target_grain
    THEN a
    ELSE IF ~GetIndex(grain - 1, block).ok THEN Panicked(a)
    ELSE SplitDown(
             ListDeallocatePageFromIndex(
                 a, grain - 1, GetIndex(grain - 1, block).index + 1).a,
             block, grain - 1, target_grain)

\* split_block that hands out the block it found and frees no upper half.
SplitBlockWhole(a, target_grain) ==
    With(LAMBDA f : [a |-> f.a, ret |-> f.ret],
         FindBlock(a, target_grain + 1))

\* PageAllocator::split_block.
SplitBlock(a, target_grain) ==
    With(LAMBDA f :
            IF f.a.panic \/ f.ret = None
            THEN [a |-> f.a, ret |-> None]
            ELSE [a |-> SplitDown(f.a, f.ret[1], f.grain, target_grain),
                  ret |-> f.ret],
         FindBlock(a, target_grain + 1))

\* The grain of a request for num_pages pages (num_pages >= 1).
GrainFor(num_pages) ==
    Ilog2(num_pages) + (IF num_pages > 2 ^ Ilog2(num_pages) THEN 1 ELSE 0)

\* The result of allocate_pages from what the free lists returned.
AllocateResult(q) ==
    IF q.a.panic
    THEN [a |-> q.a, res |-> "panic", page |-> NullPage]
    ELSE IF q.ret = None
    THEN [a |-> q.a, res |-> "OutOfMemory", page |-> NullPage]
    ELSE [a |-> q.a, res |-> "Ok", page |-> q.ret[1]]

\* PageAllocator::allocate_pages.
AllocatePages(a, num_pages) ==
    IF a.panic THEN [a |-> a, res |-> "panic", page |-> NullPage]
    ELSE IF GrainFor(num_pages) > Depth(a)
    THEN [a |-> a, res |-> "OutOfMemory", page |-> NullPage]
    ELSE With(LAMBDA r :
                 IF r.ret # None \/ r.a.panic
                 THEN AllocateResult(r)
                 ELSE AllocateResult(SplitBlock(r.a, GrainFor(num_pages))),
              AllocatePage(a, GrainFor(num_pages)))

RECURSIVE FreeFrom(_, _)
\* The for_each of PageAllocator::init over page_index .. num_pages.
FreeFrom(a, page_index) ==
    IF page_index >= a.num_pages
    THEN a
    ELSE With(LAMBDA r :
                 FreeFrom(IF r.res = "Ok" THEN r.a ELSE Panicked(r.a),
                          page_index + 1),
              DeallocatePageFromIndex(a, page_index, 0))

\* init that frees every page of RAM.
PageInitFromZero(num_pages, pages_allocated) ==
    FreeFrom([num_pages |-> num_pages,
              avail |-> [g \in 0 .. Ilog2(num_pages) |-> {}],
              head |-> [g \in 0 .. Ilog2(num_pages) |-> NullPage],
              link |-> [p \in 0 .. (num_pages - 1) |->
                           [prev |-> NullPage, next |-> NullPage]],
              panic |-> FALSE],
             0)

\* PageAllocator::init over num_pages pages of RAM, with pages_allocated
\* the heap top divided by PAGE_SIZE, rounded up.
PageInit(num_pages, pages_allocated) ==
    FreeFrom([num_pages |-> num_pages,
              avail |-> [g \in 0 .. Ilog2(num_pages) |-> {}],
              head |-> [g \in 0 .. Ilog2(num_pages) |-> NullPage],
              link |-> [p \in 0 .. (num_pages - 1) |->
                           [prev |-> NullPage, next |-> NullPage]],
              panic |-> FALSE],
             pages_allocated + 1)

(***************************************************************************)
(* SpecPage: the page allocator after init, used through                   *)
(* Allocator::allocate and Allocator::deallocate by a caller that frees    *)
(* each block it was given at most once, with the layout it asked for.     *)
(***************************************************************************)

\* RAM_LENGTH / PAGE_SIZE of the modelled machine.
NumPages == 8

\* The values of pages_allocated at init: the pages below the heap top.
HeapTops == {1, 2, 3}

\* The pages of the block of 2^grain pages at page.
BlockPages(page, grain) == page .. (page + 2 ^ grain - 1)

\* The caller writes to the memory it was given: the links that were stored
\* in the pages of the block are gone.
Overwrite(a, page, grain) ==
    [a EXCEPT !.link = [p \in DOMAIN a.link |->
                           IF p \in BlockPages(page, grain)
                           THEN [prev |-> NullPage, next |-> NullPage]
                           ELSE a.link[p]]]

InitPage ==
    /\ \E top \in HeapTops : pa = PageInit(NumPages, top)
    /\ live = EmptyBag
    /\ freedSingly = {}
    /\ plast = [op |-> "init", page |-> NullPage, grain |-> 0]
    /\ ThreadIdle /\ SchedIdle /\ SlabIdle /\ MmuIdle /\ AuxIdle

\* Allocator::allocate for Mutex<PageAllocator>, for a layout of num_pages
\* pages.
PageAlloc ==
    /\ ~pa.panic
    /\ \E num_pages \in 1 .. NumPages :
          \E r \in {AllocatePages(pa, num_pages)},
             grain \in {GrainFor(num_pages)} :
              IF r.res = "Ok"
              THEN /\ pa' = Overwrite(r.a, r.page, grain)
                   /\ live' = live (+) SetToBag({<<r.page, grain>>})
                   /\ freedSingly' = freedSingly \ BlockPages(r.page, grain)
                   /\ plast' = [op |-> "allocate", page |-> r.page,
                                grain |-> grain]
              ELSE /\ pa' = r.a
                   /\ plast' = [op |-> r.res, page |-> NullPage,
                                grain |-> grain]
                   /\ UNCHANGED <<live, freedSingly>>

\* Allocator::deallocate for Mutex<PageAllocator>, of a block the caller
\* holds, with the grain of the layout it was allocated with.
PageFree ==
    /\ ~pa.panic
    /\ \E b \in BagToSet(live) :
          \E r \in {DeallocatePage(pa, b[1], b[2])} :
              /\ pa' = IF r.res = "Ok" THEN r.a ELSE Panicked(r.a)
              /\ live' = live (-) SetToBag({b})
              /\ freedSingly' = IF b[2] = 0
                                THEN freedSingly \cup {b[1]}
                                ELSE freedSingly
              /\ plast' = [op |-> "deallocate", page |-> b[1],
                           grain |-> b[2]]

NextPage ==
    \/ (PageAlloc /\ UNCHANGED <<threadVars, schedVars, slabVars, mmuVars, auxVars>>)
    \/ (PageFree /\ UNCHANGED <<threadVars, schedVars, slabVars, mmuVars, auxVars>>)

SpecPage == InitPage /\ [][NextPage]_vars

RECURSIVE Reach(_, _, _)
\* The pages reached from page by following next.
Reach(link, page, seen) ==
    IF page = NullPage \/ page \in seen \/ page \notin DOMAIN link
    THEN seen
    ELSE Reach(link, link[page].next, seen \cup {page})

\* The blocks on the free ring of grain g, as indices of that grain.
Ring(a, g) == {p \div (2 ^ g) : p \in Reach(a.link, a.head[g], {})}

Inv_C3 ==
    /\ \A b \in BagToSet(live) : CopiesIn(b, live) = 1
    /\ \A b1, b2 \in BagToSet(live) :
          b1 # b2 =>
             BlockPages(b1[1], b1[2]) \cap BlockPages(b2[1], b2[2]) = {}

\* Three blocks are live, of two sizes at least, one of them cut out of a
\* larger block.
Wit_C3 ==
    /\ BagCardinality(live) >= 3
    /\ Cardinality({b[2] : b \in BagToSet(live)}) >= 2
    /\ \E b \in BagToSet(live) : b[2] = 1

\* The pages covered by a set bit of some grain.
FreePages(a) ==
    UNION {UNION {BlockPages(i * (2 ^ g), g) : i \in a.avail[g]} :
              g \in DOMAIN a.avail}

\* The regions of 2^k pages, aligned to 2^k pages, as <<start, k>>.
Regions ==
    {r \in (0 .. (NumPages - 1)) \X DOMAIN pa.head :
        r[1] % (2 ^ r[2]) = 0 /\ r[1] + 2 ^ r[2] <= NumPages}

\* The last call freed the last single page of region r: every page of r
\* was freed as a single page and none has been handed out since.
JustFreedSingly(r) ==
    /\ plast.op = "deallocate" /\ plast.grain = 0
    /\ plast.page \in BlockPages(r[1], r[2])
    /\ BlockPages(r[1], r[2]) \subseteq freedSingly

\* The grains at or above k whose list holds the block containing page.
HoldingGrains(a, page, k) ==
    {g \in DOMAIN a.avail : g >= k /\ (page \div (2 ^ g)) \in a.avail[g]}

\* No list below grain k holds a block inside the region r.
NoneBelow(a, r) ==
    \A g \in DOMAIN a.avail : \A p \in BlockPages(r[1], r[2]) :
        (g < r[2] /\ p % (2 ^ g) = 0) => (p \div (2 ^ g)) \notin a.avail[g]

\* The largest grain whose aligned block around page is in RAM and free in
\* all its pages.
LargestFreeGrain(a, page) ==
    CHOOSE g \in DOMAIN a.avail :
        /\ BlockPages((page \div (2 ^ g)) * (2 ^ g), g) \subseteq FreePages(a)
        /\ \A h \in DOMAIN a.avail :
              BlockPages((page \div (2 ^ h)) * (2 ^ h), h) \subseteq FreePages(a)
                 => h <= g

\* C4 as stated: once all the single pages of an aligned region of 2^k
\* pages have been freed, the grain-k list holds the block of the region
\* and no list below k holds a block of the region.
CE_C4 ==
    \A r \in Regions :
        JustFreedSingly(r) =>
            /\ (r[1] \div (2 ^ r[2])) \in pa.avail[r[2]]
            /\ NoneBelow(pa, r)

\* C4 amended: once all the single pages of an aligned region of 2^k pages
\* have been freed, exactly one free block contains the region: the block
\* of the largest grain g >= k whose pages are all free (the region's own
\* block when its buddy is not free); no list below k holds a block of the
\* region.
Thm_C4 ==
    \A r \in Regions :
        JustFreedSingly(r) =>
            /\ ~pa.panic
            /\ HoldingGrains(pa, r[1], r[2]) = {LargestFreeGrain(pa, r[1])}
            /\ NoneBelow(pa, r)

\* The four single pages of an aligned region have all been freed, and the
\* free block that now holds them is of grain 2.
Wit_C4 ==
    \E r \in Regions :
        /\ r[2] = 2
        /\ JustFreedSingly(r)
        /\ HoldingGrains(pa, r[1], r[2]) = {2}

(***************************************************************************)
(* The slab allocator (heap.rs: FreeLink, SlabHeader, SlabAllocator).  A   *)
(* header is a record                                                      *)
(*   page       the page holding page_memory                               *)
(*   slot_size  FreeLinks per slot                                         *)
(*   in_use     allocations currently active                               *)
(*   offset     Option: index of a free FreeLink                           *)
(*   mem        index -> the FreeLink at that index of page_memory, for    *)
(*              the indices that start a slot                              *)
(* and a layout is a record [size, align].                                 *)
(***************************************************************************)

PAGE_SIZE == 4096

\* size_of::<FreeLink>(): two AtomicU16.
FreeLinkSize == 4

\* The length of page_memory.
FreeLinks == PAGE_SIZE \div FreeLinkSize

\* SlabAllocator::get_slot_size.
GetSlotSize(layout) ==
    ((IF layout.size > layout.align THEN layout.size ELSE layout.align)
        + FreeLinkSize - 1) \div FreeLinkSize

\* The indices visited by page_memory.iter().step_by(slot_size).
SlotIndices(slot_size) == {i \in 0 .. (FreeLinks - 1) : i % slot_size = 0}

\* SlabHeader::new, for a slot size and the page it was given: the fold
\* links every slot to its neighbours, then the two ends are closed.
SlabHeaderNew(slot_size, page) ==
    LET last_index == Cardinality(SlotIndices(slot_size)) * slot_size
                          - slot_size
        folded == [i \in SlotIndices(slot_size) |->
                      [prev |-> (i - slot_size) % 65536,
                       next |-> i + slot_size]]
        closed == [folded EXCEPT ![0].prev = last_index,
                                 ![last_index].next = 0]
    IN  [page |-> page, slot_size |-> slot_size, in_use |-> 0,
         offset |-> Some(0), mem |-> closed, panic |-> FALSE]

HeaderPanicked(h) == [h EXCEPT !.panic = TRUE]

\* SlabHeader::allocate_at.
AllocateAt(h, index) ==
    IF index \notin DOMAIN h.mem THEN HeaderPanicked(h)
    ELSE IF h.mem[index].prev = h.mem[index].next
    THEN [h EXCEPT !.offset = None, !.in_use = h.in_use + 1]
    ELSE IF h.mem[index].prev \notin DOMAIN h.mem
            \/ h.mem[index].next \notin DOMAIN h.mem
    THEN HeaderPanicked(h)
    ELSE [h EXCEPT !.mem[h.mem[index].prev].next = h.mem[index].next,
                   !.mem[h.mem[index].next].prev = h.mem[index].prev,
                   !.offset = Some(h.mem[index].next),
                   !.in_use = h.in_use + 1]

\* SlabHeader::allocate: ret is Some(index of the slot) or None.
SlabAllocate(h) ==
    IF h.offset = None
    THEN [h |-> h, ret |-> None]
    ELSE [h |-> AllocateAt(h, h.offset[1]), ret |-> h.offset]

\* SlabHeader::deallocate_at.
DeallocateAt(h, index) ==
    IF index % h.slot_size # 0 \/ index \notin DOMAIN h.mem \/ h.in_use = 0
    THEN HeaderPanicked(h)
    ELSE IF h.offset # None
    THEN IF h.mem[h.offset[1]].next \notin DOMAIN h.mem
         THEN HeaderPanicked(h)
         ELSE [h EXCEPT !.mem[h.offset[1]].next = index,
                        !.mem[h.mem[h.offset[1]].next].prev = index,
                        !.mem[index] = [prev |-> h.offset[1],
                                        next |-> h.mem[h.offset[1]].next],
                        !.in_use = h.in_use - 1]
    ELSE [h EXCEPT !.mem[index] = [prev |-> index, next |-> index],
                   !.offset = Some(index),
                   !.in_use = h.in_use - 1]

\* binary_search_by_key on the headers, which are sorted by slot_size: Ok
\* with the position of the header of that slot size, or Err with the
\* position at which it would be inserted.
SearchHeaders(headers, block_size) ==
    IF \E i \in 1 .. Len(headers) : headers[i].slot_size = block_size
    THEN [found |-> TRUE,
          index |-> CHOOSE i \in 1 .. Len(headers) :
                       headers[i].slot_size = block_size]
    ELSE [found |-> FALSE,
          index |-> 1 + Cardinality({i \in 1 .. Len(headers) :
                                        headers[i].slot_size < block_size})]

\* Vec::insert.
InsertAt(seq, index, x) ==
    SubSeq(seq, 1, index - 1) \o <<x>> \o SubSeq(seq, index, Len(seq))

\* GlobalAlloc::alloc when no header has the block size: SlabHeader::new
\* takes a page for page_memory, the first Vec::insert takes a page for the
\* headers, and the allocation in the fresh header must succeed.  A failed
\* page allocation ends in handle_alloc_error.  The result holds the page
\* allocator, the slab allocator and the pointer <<page, index>>.
AllocFresh(a, sl, block_size, index) ==
    With(LAMBDA p1 :
        With(LAMBDA p2 :
            IF p1.res # "Ok" \/ p2.res # "Ok"
            THEN [pa |-> p2.a, slab |-> [sl EXCEPT !.panic = TRUE],
                  ptr |-> None, pages |-> {}]
            ELSE With(LAMBDA r :
                     [pa |-> p2.a,
                      slab |-> [headers |-> InsertAt(sl.headers, index, r.h),
                                panic |-> r.h.panic \/ r.ret = None],
                      ptr |-> IF r.ret = None THEN None
                              ELSE Some(<<p1.page, r.ret[1]>>),
                      pages |-> {p1.page, p2.page} \ {NullPage}],
                     SlabAllocate(SlabHeaderNew(block_size, p1.page))),
            IF p1.res = "Ok" /\ sl.headers = <<>>
            THEN AllocatePages(p1.a, 1)
            ELSE [a |-> p1.a, res |-> p1.res, page |-> NullPage]),
        AllocatePages(a, 1))

\* GlobalAlloc::alloc for Mutex<SlabAllocator>; ptr None is the null
\* pointer.
SlabAlloc(a, sl, layout) ==
    IF GetSlotSize(layout) = 0
    THEN [pa |-> a, slab |-> sl, ptr |-> None, pages |-> {}]
    ELSE With(LAMBDA f :
            IF f.found
            THEN With(LAMBDA r :
                     [pa |-> a,
                      slab |-> [headers |->
                                   [sl.headers EXCEPT ![f.index] = r.h],
                                panic |-> r.h.panic],
                      ptr |-> IF r.ret = None THEN None
                              ELSE Some(<<r.h.page, r.ret[1]>>),
                      pages |-> {}],
                     SlabAllocate(sl.headers[f.index]))
            ELSE AllocFresh(a, sl, GetSlotSize(layout), f.index),
            SearchHeaders(sl.headers, GetSlotSize(layout)))

\* SlabHeader::deallocate of the pointer <<page, index>>.
SlabDeallocate(h, ptr) ==
    IF ptr[1] # h.page THEN HeaderPanicked(h) ELSE DeallocateAt(h, ptr[2])

\* GlobalAlloc::dealloc for Mutex<SlabAllocator>.
SlabDealloc(sl, ptr, layout) ==
    With(LAMBDA f :
            IF ~f.found
            THEN [sl EXCEPT !.panic = TRUE]
            ELSE With(LAMBDA h :
                         [headers |-> [sl.headers EXCEPT ![f.index] = h],
                          panic |-> h.panic],
                      SlabDeallocate(sl.headers[f.index], ptr)),
         SearchHeaders(sl.headers, GetSlotSize(layout)))

RECURSIVE SlotRing(_, _, _)
\* The slots reached from index by following next.
SlotRing(mem, index, seen) ==
    IF index \in seen \/ index \notin DOMAIN mem
    THEN seen
    ELSE SlotRing(mem, mem[index].next, seen \cup {index})

\* The free slots of a header: those on the ring of its offset.
FreeSlots(h) ==
    IF h.offset = None THEN {} ELSE SlotRing(h.mem, h.offset[1], {})

(***************************************************************************)
(* SpecSlab: the slab allocator used through GlobalAlloc::alloc and        *)
(* GlobalAlloc::dealloc by a caller that frees each pointer it was given   *)
(* at most once, with the layout it asked for.  The pages come from the    *)
(* page allocator.                                                         *)
(***************************************************************************)

\* The layouts the caller uses: 4, 2 and 1 slots to the page.
SlabLayouts ==
    {[size |-> 1024, align |-> 8], [size |-> 2048, align |-> 16],
     [size |-> 8, align |-> 4096]}

InitSlab ==
    /\ slab = [headers |-> <<>>, panic |-> FALSE]
    /\ slabLive = EmptyBag
    /\ slast = [op |-> "init", ptr |-> None, before |-> None]
    /\ s2 = None
    /\ \E top \in HeapTops : pa = PageInit(NumPages, top)
    /\ live = EmptyBag
    /\ freedSingly = {}
    /\ plast = [op |-> "init", page |-> NullPage, grain |-> 0]
    /\ ThreadIdle /\ SchedIdle /\ MmuIdle /\ AuxIdle

\* The caller owns the slot it was given and writes to it: the links the
\* slot held are lost.  FreeLinks is past the last link of a page.
SlotOverwrite(sl, ptr) ==
    [sl EXCEPT !.headers =
        [i \in 1 .. Len(sl.headers) |->
            IF ptr # None /\ sl.headers[i].page = ptr[1][1]
               /\ ptr[1][2] \in DOMAIN sl.headers[i].mem
            THEN [sl.headers[i] EXCEPT !.mem[ptr[1][2]] =
                     [prev |-> FreeLinks, next |-> FreeLinks]]
            ELSE sl.headers[i]]]

\* The header serving a layout, as an Option.
HeaderFor(sl, layout) ==
    IF SearchHeaders(sl.headers, GetSlotSize(layout)).found
    THEN Some(sl.headers[SearchHeaders(sl.headers,
                                       GetSlotSize(layout)).index])
    ELSE None

\* A call of alloc(layout) with one of the given layouts.
SAllocIn(layouts) ==
    /\ ~slab.panic /\ ~pa.panic
    /\ \E layout \in layouts :
       \E r \in {SlabAlloc(pa, slab, layout)} :
          /\ pa' = r.pa
          /\ slab' = SlotOverwrite(r.slab, r.ptr)
          /\ live' = live (+) SetToBag({<<p, 0>> : p \in r.pages})
          /\ slabLive' = IF r.ptr = None THEN slabLive
                         ELSE slabLive (+) SetToBag({<<r.ptr[1], layout>>})
          /\ slast' = [op |-> IF r.ptr = None THEN "null" ELSE "alloc",
                       ptr |-> r.ptr,
                       before |-> HeaderFor(slab, layout)]
    /\ UNCHANGED <<freedSingly, plast, s2>>

\* A call of alloc(layout).
SAlloc == SAllocIn(SlabLayouts)

\* A call of dealloc(ptr, layout) for a pointer the caller holds.  When it
\* follows the alloc that returned ptr, the header as it was before that
\* alloc is kept for comparison.
SDealloc ==
    /\ ~slab.panic /\ ~pa.panic
    /\ \E b \in BagToSet(slabLive) :
          /\ slab' = SlabDealloc(slab, b[1], b[2])
          /\ slabLive' = slabLive (-) SetToBag({b})
          /\ slast' = IF slast.op = "alloc" /\ slast.ptr = Some(b[1])
                         /\ slast.before # None
                      THEN [op |-> "roundtrip", ptr |-> Some(b[1]),
                            before |-> slast.before]
                      ELSE [op |-> "dealloc", ptr |-> Some(b[1]),
                            before |-> None]
    /\ UNCHANGED <<pa, live, freedSingly, plast, s2>>

NextSlab ==
    \/ (SAlloc /\ UNCHANGED <<threadVars, schedVars, mmuVars, auxVars>>)
    \/ (SDealloc /\ UNCHANGED <<threadVars, schedVars, mmuVars, auxVars>>)

SpecSlab == InitSlab /\ [][NextSlab]_vars

\* The header that owns a page, as an Option.
HeaderOf(sl, page) ==
    IF \E i \in 1 .. Len(sl.headers) : sl.headers[i].page = page
    THEN Some(sl.headers[CHOOSE i \in 1 .. Len(sl.headers) :
                            sl.headers[i].page = page])
    ELSE None

\* The header h1 is in the free-ring state of the header h0.
SameRingState(h0, h1) ==
    /\ h1.in_use = h0.in_use
    /\ h1.offset = h0.offset
    /\ FreeSlots(h1) = FreeSlots(h0)

\* C8: whenever a slot is allocated from a slab that had a free slot and is
\* deallocated immediately, the slab is back in the free-ring state it had
\* before the allocation: the same in_use count, the same head index and
\* the same set of free slots.
CE_C8 ==
    slast.op = "roundtrip" =>
        /\ HeaderOf(slab, slast.before[1].page) # None
        /\ SameRingState(slast.before[1],
                         HeaderOf(slab, slast.before[1].page)[1])

(***************************************************************************)
(* SpecSlabS2: a caller fills a fresh slab with allocations of the layout  *)
(* {size 32, align 8} until alloc returns null, deallocates what it was    *)
(* given in reverse order, and allocates once more.                        *)
(***************************************************************************)

S2Layout == [size |-> 32, align |-> 8]

InitSlabS2 ==
    /\ slab = [headers |-> <<>>, panic |-> FALSE]
    /\ slabLive = EmptyBag
    /\ slast = [op |-> "init", ptr |-> None, before |-> None]
    /\ s2 = [phase |-> "fill", ptrs |-> <<>>, succeeded |-> 0,
             drained_in_use |-> None, again |-> None]
    /\ \E top \in HeapTops : pa = PageInit(NumPages, top)
    /\ live = EmptyBag
    /\ freedSingly = {}
    /\ plast = [op |-> "init", page |-> NullPage, grain |-> 0]
    /\ ThreadIdle /\ SchedIdle /\ MmuIdle /\ AuxIdle

\* The in_use count of the slab of S2Layout.
S2InUse(sl) ==
    sl.headers[SearchHeaders(sl.headers, GetSlotSize(S2Layout)).index].in_use

\* The next allocation of the fill; the first null ends it.
S2Fill ==
    /\ s2.phase = "fill" /\ ~slab.panic /\ ~pa.panic
    /\ \E r \in {SlabAlloc(pa, slab, S2Layout)} :
          /\ pa' = r.pa
          /\ slab' = SlotOverwrite(r.slab, r.ptr)
          /\ live' = live (+) SetToBag({<<p, 0>> : p \in r.pages})
          /\ slabLive' = IF r.ptr = None THEN slabLive
                         ELSE slabLive (+) SetToBag({<<r.ptr[1], S2Layout>>})
          /\ s2' = IF r.ptr = None
                   THEN [s2 EXCEPT !.phase = "drain"]
                   ELSE [s2 EXCEPT !.ptrs = Append(s2.ptrs, r.ptr[1]),
                                   !.succeeded = s2.succeeded + 1]
    /\ UNCHANGED <<slast, freedSingly, plast>>

\* The deallocation of the pointer given last among those still held; after
\* the last one the in_use count is noted.
S2Drain ==
    /\ s2.phase = "drain" /\ ~slab.panic /\ s2.ptrs # <<>>
    /\ \E sl \in {SlabDealloc(slab, s2.ptrs[Len(s2.ptrs)], S2Layout)} :
          /\ slab' = sl
          /\ slabLive' = slabLive
                 (-) SetToBag({<<s2.ptrs[Len(s2.ptrs)], S2Layout>>})
          /\ s2' = IF Len(s2.ptrs) = 1
                   THEN [s2 EXCEPT !.ptrs = <<>>, !.phase = "again",
                                   !.drained_in_use = Some(S2InUse(sl))]
                   ELSE [s2 EXCEPT !.ptrs = SubSeq(s2.ptrs, 1,
                                                   Len(s2.ptrs) - 1)]
    /\ UNCHANGED <<pa, live, slast, freedSingly, plast>>

\* The further allocation.
S2Again ==
    /\ s2.phase = "again" /\ ~slab.panic /\ ~pa.panic
    /\ \E r \in {SlabAlloc(pa, slab, S2Layout)} :
          /\ pa' = r.pa
          /\ slab' = SlotOverwrite(r.slab, r.ptr)
          /\ live' = live (+) SetToBag({<<p, 0>> : p \in r.pages})
          /\ slabLive' = IF r.ptr = None THEN slabLive
                         ELSE slabLive (+) SetToBag({<<r.ptr[1], S2Layout>>})
          /\ s2' = [s2 EXCEPT !.phase = "done", !.again = Some(r.ptr # None)]
    /\ UNCHANGED <<slast, freedSingly, plast>>

NextSlabS2 ==
    \/ (S2Fill /\ UNCHANGED <<threadVars, schedVars, mmuVars, auxVars>>)
    \/ (S2Drain /\ UNCHANGED <<threadVars, schedVars, mmuVars, auxVars>>)
    \/ (S2Again /\ UNCHANGED <<threadVars, schedVars, mmuVars, auxVars>>)

SpecSlabS2 == InitSlabS2 /\ [][NextSlabS2]_vars

\* C7: the fill of a fresh slab of layout {size 32, align 8} ends with
\* exactly PAGE_SIZE / 32 = 128 successful allocations, the next one being
\* null; after all of them are deallocated in reverse order in_use is zero
\* and a further allocation succeeds.
CE_C7 ==
    /\ s2.phase # "fill" => s2.succeeded = PAGE_SIZE \div S2Layout.size
    /\ s2.phase \in {"again", "done"} => s2.drained_in_use = Some(0)
    /\ s2.phase = "done" => s2.again = Some(TRUE)


(***************************************************************************)
(* The Sv39 page table.  An entry is the record of the bit fields of its   *)
(* 64-bit word; a table holds 512 entries and is kept as the function of   *)
(* the entries that are not zero.  A virtual address is the record of bits *)
(* 63..39 (hi), the three 9-bit fields at bits 38..30, 29..21 and 20..12   *)
(* (vpn2, vpn1, vpn0) and the page offset; a physical address is the       *)
(* record of bits 63..44 (hi), 43..30 (f2), 29..21 (f1), 20..12 (f0) and   *)
(* the offset.                                                             *)
(***************************************************************************)

NUM_ENTRIES == 512
LEVEL_INDEX == 0
REFERENCE_COUNTS == <<1, 2, 3, 4>>
MUT_REFERENCE_COUNT_INDEX == 5
REFERENCE_LOCK_INDEX == 6
PARENT_REFERENCE_INDEX == 7

\* Sv39PageTableEntry::new: the zero word.
ZeroEntry ==
    [valid |-> FALSE, readable |-> FALSE, writable |-> FALSE,
     executable |-> FALSE, user_mode_accessible |-> FALSE, global |-> FALSE,
     accessed |-> FALSE, dirty |-> FALSE, reserved |-> 0,
     level_0 |-> 0, level_1 |-> 0, level_2 |-> 0, napot |-> FALSE]

\* is_<name>.
IsBit(e, name) == e[name]

\* set_<name>: the word becomes (data & !bitmask) | bitmask, where bitmask
\* is the bit of the field when the argument is true and zero otherwise.
SetBit(e, name, b) == [e EXCEPT ![name] = (e[name] /\ ~b) \/ b]

\* PagePermissions as the discriminant, and its three tests.
PagePermissions == {1, 3, 4, 5, 7}
ReadAllowed(permissions) == permissions % 2 = 1
WriteAllowed(permissions) == (permissions \div 2) % 2 = 1
ExecuteAllowed(permissions) == (permissions \div 4) % 2 = 1

IsPointer(e) ==
    ~(IsBit(e, "readable") \/ IsBit(e, "writable") \/ IsBit(e, "executable"))

\* (physical_address & 0xFFF_FFFF_FFFF) >> 12 split into the three parts of
\* the page number of an entry: bits 44 and above of the address are masked
\* away.
MaskedPageNumber(physical_address) ==
    [level_0 |-> physical_address.f0, level_1 |-> physical_address.f1,
     level_2 |-> physical_address.f2]

\* set_physical_page_number: the 44-bit field is replaced.
SetPhysicalPageNumber(e, ppn) ==
    [e EXCEPT !.level_0 = ppn.level_0, !.level_1 = ppn.level_1,
              !.level_2 = ppn.level_2]

\* get_physical_page_number_for_level.
GetPhysicalPageNumberForLevel(e, level) ==
    CASE level = 2 -> Some(e.level_2)
      [] level = 1 -> Some(e.level_1)
      [] level = 0 -> Some(e.level_0)
      [] OTHER -> None

\* apply_permissions.
ApplyPermissions(e, permissions) ==
    SetBit(SetBit(SetBit(e, "readable", ReadAllowed(permissions)),
                  "writable", WriteAllowed(permissions)),
           "executable", ExecuteAllowed(permissions))

\* The entry of a table at an index, and the table with that entry written.
EntryAt(table, index) ==
    IF index \in DOMAIN table THEN table[index] ELSE ZeroEntry

PutEntry(table, index, e) ==
    [i \in (DOMAIN table \cup {index}) \ (IF e = ZeroEntry THEN {index} ELSE {})
        |-> IF i = index THEN e ELSE table[i]]

\* The address of the table in a page of RAM, RAM_BASE being 0x4000_0000,
\* and the page of the table an address points to.
TableAddress(page) ==
    [hi |-> 0, f2 |-> 1, f1 |-> page \div NUM_ENTRIES,
     f0 |-> page % NUM_ENTRIES, off |-> 0]

\* get_physical_page_number() << 12 as a pointer to a table.
PointerOf(e) ==
    [hi |-> e.level_2 \div 16384, f2 |-> e.level_2 % 16384,
     f1 |-> e.level_1, f0 |-> e.level_0, off |-> 0]

PageOfAddress(a) == a.f1 * NUM_ENTRIES + a.f0

(***************************************************************************)
(* The memory the page-table code works on: the tables by page, the two    *)
(* allocators behind Box, and whether a panic has ended the kernel.  Every *)
(* step takes the memory and gives the memory after it; after a panic      *)
(* nothing changes any more.                                               *)
(***************************************************************************)

MmuPanic(m) == [m EXCEPT !.panic = TRUE]

Reserved(m, t, index) == EntryAt(m.tables[t], index).reserved

\* set_reserved and set_reserved_atomic on an entry of table t; the value
\* fits two bits at every call made here.
SetReservedAt(m, t, index, reserved) ==
    [m EXCEPT !.tables[t] =
        PutEntry(m.tables[t], index,
                 [EntryAt(m.tables[t], index) EXCEPT !.reserved = reserved])]

\* atomic_swap_reserved followed by expect: a panic unless the reserved bits
\* are current.
SwapReservedExpect(m, t, index, current, new) ==
    IF m.panic THEN m
    ELSE IF Reserved(m, t, index) = current
    THEN SetReservedAt(m, t, index, new)
    ELSE MmuPanic(m)

\* Sv39PageTable::level.
Level(m, t) == Reserved(m, t, LEVEL_INDEX)

\* Sv39PageTable::set_level followed by expect.
SetLevel(m, t, level) ==
    IF m.panic THEN m
    ELSE IF level > 2 \/ level < 0 THEN MmuPanic(m)
    ELSE SetReservedAt(m, t, LEVEL_INDEX, level)

\* Sv39PageTableReferenceCounterHandle::reference_count.
ReferenceCount(m, t) ==
    Reserved(m, t, REFERENCE_COUNTS[1]) + 4 * Reserved(m, t, REFERENCE_COUNTS[2])
    + 16 * Reserved(m, t, REFERENCE_COUNTS[3])
    + 64 * Reserved(m, t, REFERENCE_COUNTS[4])

RECURSIVE IncrementFrom(_, _, _)
\* The loop of increment_reference_count without the panic after the last
\* pair of bits.
IncrementFromWrapping(m, t, i) ==
    IF i > Len(REFERENCE_COUNTS) THEN m
    ELSE IF Reserved(m, t, REFERENCE_COUNTS[i]) + 1 > 3
    THEN IncrementFrom(SetReservedAt(m, t, REFERENCE_COUNTS[i], 0), t, i + 1)
    ELSE SetReservedAt(m, t, REFERENCE_COUNTS[i],
                       Reserved(m, t, REFERENCE_COUNTS[i]) + 1)

\* The loop of increment_reference_count from the i-th pair of bits on.
IncrementFrom(m, t, i) ==
    IF i > Len(REFERENCE_COUNTS) THEN MmuPanic(m)
    ELSE IF Reserved(m, t, REFERENCE_COUNTS[i]) + 1 > 3
    THEN IncrementFrom(SetReservedAt(m, t, REFERENCE_COUNTS[i], 0), t, i + 1)
    ELSE SetReservedAt(m, t, REFERENCE_COUNTS[i],
                       Reserved(m, t, REFERENCE_COUNTS[i]) + 1)

\* Sv39PageTableReferenceCounterHandle::increment_reference_count.
IncrementReferenceCount(m, t) ==
    IF m.panic THEN m ELSE IncrementFrom(m, t, 1)

RECURSIVE DecrementFrom(_, _, _)
\* The loop of decrement_reference_count from the i-th pair of bits on.
DecrementFrom(m, t, i) ==
    IF i > Len(REFERENCE_COUNTS) THEN MmuPanic(m)
    ELSE IF Reserved(m, t, REFERENCE_COUNTS[i]) = 0
    THEN DecrementFrom(SetReservedAt(m, t, REFERENCE_COUNTS[i], 3), t, i + 1)
    ELSE SetReservedAt(m, t, REFERENCE_COUNTS[i],
                       Reserved(m, t, REFERENCE_COUNTS[i]) - 1)

\* Sv39PageTableReferenceCounterHandle::decrement_reference_count.
DecrementReferenceCount(m, t) ==
    IF m.panic THEN m ELSE DecrementFrom(m, t, 1)

\* Sv39PageTable::acquire_reference_lock: on one hart a lock that is held
\* stays held through all the attempts, and the call panics.
AcquireReferenceLock(m, t) ==
    IncrementReferenceCount(
        SwapReservedExpect(m, t, REFERENCE_LOCK_INDEX, 0, 1), t)

HasMutReference(m, t) == Reserved(m, t, MUT_REFERENCE_COUNT_INDEX) > 0

HasLivingParentReference(m, t) == Reserved(m, t, PARENT_REFERENCE_INDEX) = 1

\* release_mut_reference that leaves the flag as it is.
ReleaseMutReferenceKeepFlag(m, t) == m

\* release_mut_reference, set_parent_reference_alive and
\* clear_parent_reference_alive.
ReleaseMutReference(m, t) ==
    SwapReservedExpect(m, t, MUT_REFERENCE_COUNT_INDEX, 1, 0)

SetParentReferenceAlive(m, t) ==
    SwapReservedExpect(m, t, PARENT_REFERENCE_INDEX, 0, 1)

ClearParentReferenceAlive(m, t) ==
    SwapReservedExpect(m, t, PARENT_REFERENCE_INDEX, 1, 0)

\* The layout of Sv39PageTable, which is repr(align(4096)) and holds 512
\* words.
TableLayout == [size |-> 4096, align |-> 4096]

\* Box::new_zeroed with the global allocator, which is SLAB_ALLOCATOR: a
\* null pointer ends in handle_alloc_error.  The result holds the memory
\* and the page of the zeroed table.
AllocTable(m) ==
    IF m.panic THEN [m |-> m, page |-> NullPage]
    ELSE With(LAMBDA r :
            IF r.ptr = None \/ r.slab.panic \/ r.pa.panic
            THEN [m |-> [m EXCEPT !.pa = r.pa, !.slab = r.slab,
                                  !.panic = TRUE],
                  page |-> NullPage]
            ELSE [m |-> [m EXCEPT
                            !.pa = r.pa,
                            !.slab = SlotOverwrite(r.slab, r.ptr),
                            !.pages = m.pages \cup r.pages,
                            !.boxes = m.boxes \cup {r.ptr[1]},
                            !.tables = [t \in DOMAIN m.tables
                                              \cup {r.ptr[1][1]} |->
                                          IF t = r.ptr[1][1] THEN <<>>
                                          ELSE m.tables[t]]],
                  page |-> r.ptr[1][1]],
            SlabAlloc(m.pa, m.slab, TableLayout))

\* The deallocation of the Box of table t through the global allocator.
DeallocTable(m, t) ==
    IF m.panic THEN m
    ELSE With(LAMBDA sl :
            [m EXCEPT !.slab = sl, !.panic = sl.panic,
                      !.boxes = m.boxes \ {<<t, 0>>},
                      !.tables = [u \in DOMAIN m.tables \ {t} |->
                                     m.tables[u]]],
            SlabDealloc(m.slab, <<t, 0>>, TableLayout))

RECURSIVE HandleDrop(_, _)
RECURSIVE FreeTable(_, _)
RECURSIVE DropEntries(_, _, _)
RECURSIVE DropPointerRefIfPointer(_, _, _)
RECURSIVE RefDrop(_, _)

\* Drop for Sv39PageTableReferenceCounterHandle without the look at the
\* reference count.
HandleDropIgnoringCount(m, t) ==
    With(LAMBDA m1 :
            IF m1.panic THEN m1
            ELSE IF ~HasMutReference(m1, t)
                    /\ ~HasLivingParentReference(m1, t)
            THEN FreeTable(m1, t)
            ELSE SwapReservedExpect(m1, t, REFERENCE_LOCK_INDEX, 1, 0),
         DecrementReferenceCount(m, t))

\* Drop for Sv39PageTableReferenceCounterHandle.
HandleDrop(m, t) ==
    With(LAMBDA m1 :
            IF m1.panic THEN m1
            ELSE IF ReferenceCount(m1, t) = 0 /\ ~HasMutReference(m1, t)
                    /\ ~HasLivingParentReference(m1, t)
            THEN FreeTable(m1, t)
            ELSE SwapReservedExpect(m1, t, REFERENCE_LOCK_INDEX, 1, 0),
         DecrementReferenceCount(m, t))

\* drop(Box::from_raw(table)): the entries are dropped in order, then the
\* page goes back to the allocator.
FreeTable(m, t) ==
    DeallocTable(DropEntries(m, t, DOMAIN m.tables[t]), t)

\* Drop for Sv39PageTableEntry on the entries of table t at the indices.
DropEntries(m, t, indices) ==
    IF m.panic \/ indices = {} THEN m
    ELSE With(LAMBDA i :
                 DropEntries(DropPointerRefIfPointer(m, t, i), t,
                             indices \ {i}),
              CHOOSE i \in indices : \A j \in indices : i <= j)

\* Sv39PageTableRef::new: ok tells whether a reference was made.
RefNew(m, t) ==
    With(LAMBDA m1 :
            IF m1.panic THEN [ok |-> FALSE, m |-> m1]
            ELSE IF HasMutReference(m1, t)
            THEN [ok |-> FALSE, m |-> HandleDrop(m1, t)]
            ELSE [ok |-> TRUE,
                  m |-> HandleDrop(IncrementReferenceCount(m1, t), t)],
         AcquireReferenceLock(m, t))

\* Drop for Sv39PageTableRef.
RefDrop(m, t) ==
    With(LAMBDA m1 :
            IF m1.panic THEN m1
            ELSE IF HasMutReference(m1, t) THEN MmuPanic(m1)
            ELSE HandleDrop(DecrementReferenceCount(m1, t), t),
         AcquireReferenceLock(m, t))

\* as_pointer_blocking of an entry that points to table c: on one hart a
\* reference that cannot be made at once cannot be made later.
AsPointerBlocking(m, c) ==
    With(LAMBDA r : IF r.ok THEN r.m ELSE MmuPanic(r.m), RefNew(m, c))

\* The table an entry points to.  A page number that is not the page of a
\* table is never stored in a pointer entry.
Pointee(m, e) ==
    IF PointerOf(e).hi = 0 /\ PointerOf(e).f2 = 1
       /\ PageOfAddress(PointerOf(e)) \in DOMAIN m.tables
    THEN Some(PageOfAddress(PointerOf(e)))
    ELSE None

\* The rest of drop_pointer_ref_if_pointer once the entry is known to be a
\* valid pointer to table c.
DropPointerRef(m, t, index, c) ==
    RefDrop(
        HandleDrop(
            ClearParentReferenceAlive(
                AcquireReferenceLock(
                    With(LAMBDA m1 :
                            IF m1.panic THEN m1
                            ELSE [m1 EXCEPT !.tables[t] =
                                     PutEntry(m1.tables[t], index,
                                              SetBit(EntryAt(m1.tables[t],
                                                             index),
                                                     "valid", FALSE))],
                         AsPointerBlocking(m, c)),
                    c),
                c),
            c),
        c)

\* Sv39PageTableEntry::drop_pointer_ref_if_pointer on entry index of t.
DropPointerRefIfPointer(m, t, index) ==
    IF m.panic THEN m
    ELSE IF ~(IsPointer(EntryAt(m.tables[t], index))
              /\ IsBit(EntryAt(m.tables[t], index), "valid"))
    THEN m
    ELSE IF Pointee(m, EntryAt(m.tables[t], index)) = None
    THEN MmuPanic(m)
    ELSE DropPointerRef(m, t, index,
                        Pointee(m, EntryAt(m.tables[t], index))[1])

\* claim_mut_reference without the look at the reference count.
ClaimMutReferenceFlagOnly(m, t) ==
    IF Reserved(m, t, MUT_REFERENCE_COUNT_INDEX) # 0
    THEN [ok |-> FALSE, m |-> m]
    ELSE [ok |-> TRUE,
          m |-> SetReservedAt(m, t, MUT_REFERENCE_COUNT_INDEX, 1)]

\* claim_mut_reference.
ClaimMutReference(m, t) ==
    IF ReferenceCount(m, t) > 1
       \/ Reserved(m, t, MUT_REFERENCE_COUNT_INDEX) # 0
    THEN [ok |-> FALSE, m |-> m]
    ELSE [ok |-> TRUE,
          m |-> SetReservedAt(m, t, MUT_REFERENCE_COUNT_INDEX, 1)]

\* Sv39PageTableMutRef::new.
MutRefNew(m, t) ==
    With(LAMBDA m1 :
            IF m1.panic THEN [ok |-> FALSE, m |-> m1]
            ELSE With(LAMBDA c :
                         IF c.ok
                         THEN [ok |-> TRUE,
                               m |-> HandleDrop(
                                        IncrementReferenceCount(c.m, t), t)]
                         ELSE [ok |-> FALSE, m |-> HandleDrop(c.m, t)],
                      ClaimMutReference(m1, t)),
         AcquireReferenceLock(m, t))

\* Drop for Sv39PageTableMutRef.
MutRefDrop(m, t) ==
    HandleDrop(
        ReleaseMutReference(
            DecrementReferenceCount(AcquireReferenceLock(m, t), t), t),
        t)

\* Sv39PageTable::new: the memory and the page of the root table.
TableNew(m) ==
    With(LAMBDA a :
            [m |-> HandleDrop(
                      SetParentReferenceAlive(
                          AcquireReferenceLock(SetLevel(a.m, a.page, 2),
                                               a.page),
                          a.page),
                      a.page),
             page |-> a.page],
         AllocTable(m))

\* Sv39PageTable::new_subtable under table t: the memory and the page of
\* the subtable, to which a mutable reference is held.
NewSubtable(m, t) ==
    With(LAMBDA a :
            With(LAMBDA r :
                    [m |-> IF r.ok THEN r.m ELSE MmuPanic(r.m),
                     page |-> a.page],
                 MutRefNew(SetLevel(a.m, a.page, Level(m, t) - 1), a.page)),
         AllocTable(m))

WriteEntry(m, t, index, e) ==
    [m EXCEPT !.tables[t] = PutEntry(m.tables[t], index, e)]

\* Sv39PageTableEntry::set_to_direct_mapping on entry index of table t.
SetToDirectMapping(m, t, index, physical_address, permissions) ==
    With(LAMBDA m1 :
            IF m1.panic THEN m1
            ELSE WriteEntry(m1, t, index,
                    SetBit(
                        ApplyPermissions(
                            SetPhysicalPageNumber(
                                SetBit(EntryAt(m1.tables[t], index),
                                       "valid", FALSE),
                                MaskedPageNumber(physical_address)),
                            permissions),
                        "valid", TRUE)),
         DropPointerRefIfPointer(m, t, index))

\* set_to_pointer up to the last write of the permission bits.
PointerEntry(e, sub) ==
    SetBit(
        SetBit(
            SetBit(
                SetPhysicalPageNumber(SetBit(e, "valid", FALSE),
                                      MaskedPageNumber(TableAddress(sub))),
                "readable", FALSE),
            "writable", FALSE),
        "executable", FALSE)

\* Sv39PageTableEntry::set_to_pointer on entry index of table t, to the
\* table sub.
SetToPointer(m, t, index, sub) ==
    With(LAMBDA m1 :
            IF m1.panic THEN m1
            ELSE With(LAMBDA m2 :
                         IF m2.panic THEN m2
                         ELSE HandleDrop(
                                 WriteEntry(m2, t, index,
                                     SetBit(EntryAt(m2.tables[t], index),
                                            "valid", TRUE)),
                                 sub),
                      SetParentReferenceAlive(
                          AcquireReferenceLock(
                              WriteEntry(m1, t, index,
                                  PointerEntry(EntryAt(m1.tables[t], index),
                                               sub)),
                              sub),
                          sub)),
         DropPointerRefIfPointer(m, t, index))

\* (virtual_address & (0x1FF << offset)) >> offset with offset 12 + 9 *
\* level.
VpnAt(v, level) ==
    CASE level = 0 -> v.vpn0
      [] level = 1 -> v.vpn1
      [] level = 2 -> v.vpn2

\* What set_map returns: the memory, the variant of the result, and the
\* table on which the tagged entry of an error holds a reference.
SetMapResult(m, res, tagged) ==
    [m |-> m, res |-> IF m.panic THEN "panic" ELSE res,
     tagged |-> IF m.panic THEN None ELSE tagged]

\* An error with make_tagged_entry on table t.
\* The error returned from a table whose entries have been zeroed.
TaggedErrorWiping(m, t, res) ==
    SetMapResult([m EXCEPT !.tables[t] = <<>>], res, None)

TaggedError(m, t, res) ==
    With(LAMBDA r : SetMapResult(r.m, res, IF r.ok THEN Some(t) ELSE None),
         RefNew(m, t))

RECURSIVE SetMap(_, _, _, _, _, _)
RECURSIVE SetMapFresh(_, _, _, _, _, _, _)
RECURSIVE SetMapBelow(_, _, _, _, _, _)

\* Sv39PageTable::set_map on table t.
SetMap(m, t, v, p, level, permissions) ==
    IF m.panic THEN SetMapResult(m, "panic", None)
    ELSE IF level > Level(m, t)
    THEN SetMapResult(m, "ImpossibleLevel", None)
    ELSE IF level = Level(m, t)
    THEN IF ~IsBit(EntryAt(m.tables[t], VpnAt(v, Level(m, t))), "valid")
         THEN SetMapResult(
                 SetToDirectMapping(m, t, VpnAt(v, Level(m, t)), p,
                                    permissions),
                 "Ok", None)
         ELSE IF IsPointer(EntryAt(m.tables[t], VpnAt(v, Level(m, t))))
         THEN TaggedError(m, t, "MappingIsActivePointer")
         ELSE TaggedError(m, t, "AddressAlreadyInUse")
    ELSE IF ~IsBit(EntryAt(m.tables[t], VpnAt(v, Level(m, t))), "valid")
    THEN SetMapFresh(NewSubtable(m, t), t, VpnAt(v, Level(m, t)), v, p,
                     level, permissions)
    ELSE IF IsPointer(EntryAt(m.tables[t], VpnAt(v, Level(m, t))))
    THEN IF Pointee(m, EntryAt(m.tables[t], VpnAt(v, Level(m, t)))) = None
         THEN SetMapResult(MmuPanic(m), "panic", None)
         ELSE SetMapBelow(
                 MutRefNew(m, Pointee(m, EntryAt(m.tables[t],
                                          VpnAt(v, Level(m, t))))[1]),
                 Pointee(m, EntryAt(m.tables[t], VpnAt(v, Level(m, t))))[1],
                 v, p, level, permissions)
    ELSE TaggedError(m, t, "AddressAlreadyInUse")

\* The branch of set_map that makes the subtable s.page: the entry becomes
\* a pointer when the mapping went into the subtable, and the mutable
\* reference to the subtable is dropped on return.
SetMapFresh(s, t, index, v, p, level, permissions) ==
    IF s.m.panic THEN SetMapResult(s.m, "panic", None)
    ELSE With(LAMBDA r :
                 SetMapResult(
                     MutRefDrop(IF r.res = "Ok"
                                THEN SetToPointer(r.m, t, index, s.page)
                                ELSE r.m,
                                s.page),
                     r.res, r.tagged),
              SetMap(s.m, s.page, v, p, level, permissions))

\* The branch of set_map that goes into the subtable c with the mutable
\* reference mr of as_pointer_mut_blocking.
SetMapBelow(mr, c, v, p, level, permissions) ==
    IF ~mr.ok THEN SetMapResult(MmuPanic(mr.m), "panic", None)
    ELSE With(LAMBDA r : SetMapResult(MutRefDrop(r.m, c), r.res, r.tagged),
              SetMap(mr.m, c, v, p, level, permissions))

\* Bit 38 of a virtual address, and bit i for i in 39 .. 63.
HighBit(v) == (v.vpn2 \div 256) % 2

UpperBit(v, i) == (v.hi \div (2 ^ (i - 39))) % 2

\* The test of map on the upper bits, over bits 40 .. 63 only.
UpperBitsMalformedFrom40(v) ==
    \E i \in 40 .. 63 : UpperBit(v, i) # HighBit(v)

\* The test of map on the upper bits.
UpperBitsMalformed(v) ==
    \E i \in 39 .. 63 : UpperBit(v, i) # HighBit(v)

\* The part of the physical address at bits 12 + 9 * l and above it that
\* map takes for level l: from the virtual address below the level of the
\* table, from the entry otherwise.
AddressPart(e, v, level, l) ==
    IF l \in 0 .. (level - 1) THEN VpnAt(v, l)
    ELSE GetPhysicalPageNumberForLevel(e, l)[1]

\* The physical address map assembles from a leaf entry of a table of the
\* level.
Assemble(e, v, level) ==
    [off |-> v.off,
     f0 |-> AddressPart(e, v, level, 0),
     f1 |-> AddressPart(e, v, level, 1),
     f2 |-> AddressPart(e, v, level, 2) % 16384,
     hi |-> AddressPart(e, v, level, 2) \div 16384]

\* What map returns: the memory, the variant, the address of Ok, and the
\* table on which the tagged entry of an error holds a reference.
MapResult(m, res, addr, tagged) ==
    [m |-> m, res |-> IF m.panic THEN "panic" ELSE res,
     addr |-> IF m.panic THEN None ELSE addr,
     tagged |-> IF m.panic THEN None ELSE tagged]

\* An error of map with a tagged entry on table t.
TaggedMapError(m, t, res) ==
    With(LAMBDA r :
            MapResult(r.m, res, None, IF r.ok THEN Some(t) ELSE None),
         RefNew(m, t))

RECURSIVE Map(_, _, _)
RECURSIVE MapBelow(_, _, _)

\* Sv39PageTable::map on table t.
Map(m, t, v) ==
    IF m.panic THEN MapResult(m, "panic", None, None)
    ELSE IF UpperBitsMalformed(v)
    THEN MapResult(m, "UpperBitsMalformed", None, None)
    ELSE IF ~IsBit(EntryAt(m.tables[t], VpnAt(v, Level(m, t))), "valid")
    THEN TaggedMapError(m, t, "InvalidEntry")
    ELSE IF IsPointer(EntryAt(m.tables[t], VpnAt(v, Level(m, t))))
    THEN IF Level(m, t) = 0
         THEN TaggedMapError(m, t, "LevelZeroPointer")
         ELSE IF Pointee(m, EntryAt(m.tables[t],
                                    VpnAt(v, Level(m, t)))) = None
         THEN MapResult(MmuPanic(m), "panic", None, None)
         ELSE MapBelow(m, Pointee(m, EntryAt(m.tables[t],
                                      VpnAt(v, Level(m, t))))[1], v)
    ELSE MapResult(m, "Ok",
                   Some(Assemble(EntryAt(m.tables[t], VpnAt(v, Level(m, t))),
                                 v, Level(m, t))),
                   None)

\* The branch of map that goes into the subtable c with the reference of
\* as_pointer_blocking, which is dropped on return.
MapBelow(m, c, v) ==
    With(LAMBDA r : MapResult(RefDrop(r.m, c), r.res, r.addr, r.tagged),
         Map(AsPointerBlocking(m, c), c, v))

(***************************************************************************)
(* SpecMmu: after init_allocators a root table is made with                *)
(* Sv39PageTable::new, and a caller on the one hart installs mappings with *)
(* set_map and translates addresses with map, dropping each result before  *)
(* the next call.                                                          *)
(***************************************************************************)

Vaddr(hi, vpn2, vpn1, vpn0, off) ==
    [hi |-> hi, vpn2 |-> vpn2, vpn1 |-> vpn1, vpn0 |-> vpn0, off |-> off]

Paddr(hi, f2, f1, f0, off) ==
    [hi |-> hi, f2 |-> f2, f1 |-> f1, f0 |-> f0, off |-> off]

\* Bits 63 .. 39 all set.
AllOnes == 2 ^ 25 - 1

\* The virtual addresses given to set_map: 0x2000_0000, 0, the canonical
\* 0xFFFF_FFC0_0000_0000, and 0x0000_0080_4000_0000 whose bit 39 differs
\* from bit 38.
SetMapVaddrs ==
    {Vaddr(0, 0, 256, 0, 0), Vaddr(0, 0, 0, 0, 0),
     Vaddr(AllOnes, 256, 0, 0, 0), Vaddr(1, 1, 0, 0, 0)}

\* The physical addresses given to set_map, each with its permissions:
\* 0x4000_0000 and 0x1000_0000_0000 with ReadWriteExecute, 0x4020_0000 with
\* ReadOnly.
SetMapTargets ==
    {<<Paddr(0, 1, 0, 0, 0), 7>>, <<Paddr(0, 1, 1, 0, 0), 1>>,
     <<Paddr(1, 0, 0, 0, 0), 7>>}

SetMapLevels == 0 .. 3

\* The virtual addresses given to map.
MapVaddrs ==
    {Vaddr(hi, vpn2, vpn1, low[1], low[2]) :
        hi \in {0, 1, AllOnes}, vpn2 \in {0, 256}, vpn1 \in {0, 256},
        low \in {<<0, 0>>, <<0, 4011>>, <<256, 0>>}}

\* The memory in a state.
Memory ==
    [tables |-> pt.tables, slab |-> slab, pa |-> pa, panic |-> pt.panic,
     pages |-> {}, boxes |-> {}]

\* The pages the bump allocator had handed out when the page allocator
\* was set up.
MmuHeapTop == 1

InitMmu ==
    /\ \E top \in {MmuHeapTop} :
       \E r \in {TableNew([tables |-> <<>>,
                           slab |-> [headers |-> <<>>, panic |-> FALSE],
                           pa |-> PageInit(NumPages, top),
                           panic |-> FALSE, pages |-> {}, boxes |-> {}])} :
          /\ pt = [tables |-> r.m.tables, root |-> r.page,
                   panic |-> r.m.panic]
          /\ slab = r.m.slab
          /\ pa = r.m.pa
          /\ live = SetToBag({<<p, 0>> : p \in r.m.pages})
          /\ slabLive = SetToBag({<<b, TableLayout>> : b \in r.m.boxes})
    /\ installed = {}
    /\ satp = None
    /\ mres = [op |-> "new", v |-> None, p |-> None, level |-> 0,
               permissions |-> 0, res |-> "Ok", addr |-> None]
    /\ slast = [op |-> "init", ptr |-> None, before |-> None]
    /\ s2 = None
    /\ freedSingly = {}
    /\ plast = [op |-> "init", page |-> NullPage, grain |-> 0]
    /\ ThreadIdle /\ SchedIdle /\ AuxIdle

\* The memory after the caller has dropped a result.
Dropped(r) == IF r.tagged = None THEN r.m ELSE RefDrop(r.m, r.tagged[1])

\* The variables that hold the memory m after a call.
MemoryBecomes(m) ==
    /\ pt' = [tables |-> m.tables, root |-> pt.root, panic |-> m.panic]
    /\ slab' = m.slab
    /\ pa' = m.pa
    /\ live' = live (+) SetToBag({<<p, 0>> : p \in m.pages})
    /\ slabLive' = SetToBag({<<b, TableLayout>> :
                                b \in {<<t, 0>> : t \in DOMAIN m.tables}})

\* A call of set_map on the root table.
MSetMap ==
    /\ ~pt.panic
    /\ \E v \in SetMapVaddrs, target \in SetMapTargets,
          level \in SetMapLevels :
       \E r \in {SetMap(Memory, pt.root, v, target[1], level, target[2])},
          p \in {target[1]}, permissions \in {target[2]} :
          /\ MemoryBecomes(Dropped(r))
          /\ installed' = IF r.res = "Ok"
                          THEN installed
                               \cup {[v |-> v, p |-> p, level |-> level]}
                          ELSE installed
          /\ mres' = [op |-> "set_map", v |-> Some(v), p |-> Some(p),
                      level |-> level, permissions |-> permissions,
                      res |-> r.res, addr |-> None]
    /\ UNCHANGED <<satp, slast, s2, freedSingly, plast>>

\* A call of map on the root table.
MMap ==
    /\ ~pt.panic
    /\ \E v \in MapVaddrs :
       \E r \in {Map(Memory, pt.root, v)} :
          /\ MemoryBecomes(Dropped(r))
          /\ mres' = [op |-> "map", v |-> Some(v), p |-> None, level |-> 0,
                      permissions |-> 0, res |-> r.res, addr |-> r.addr]
    /\ UNCHANGED <<installed, satp, slast, s2, freedSingly, plast>>

NextMmu ==
    \/ (MSetMap /\ UNCHANGED <<threadVars, schedVars, auxVars>>)
    \/ (MMap /\ UNCHANGED <<threadVars, schedVars, auxVars>>)

SpecMmu == InitMmu /\ [][NextMmu]_vars

RECURSIVE BitOr(_, _)
\* The bitwise or of two naturals.
BitOr(a, b) ==
    IF a = 0 THEN b
    ELSE IF b = 0 THEN a
    ELSE (IF a % 2 = 1 \/ b % 2 = 1 THEN 1 ELSE 0)
         + 2 * BitOr(a \div 2, b \div 2)

\* v2 agrees with v in all bits at positions 12 + 9 * level and above.
AgreesAbove(v2, v, level) ==
    /\ v2.hi = v.hi
    /\ \A l \in level .. 2 : VpnAt(v2, l) = VpnAt(v, l)

\* p | (v & ((1 << (12 + 9 * level)) - 1)).
OrBelow(p, v, level) ==
    [hi |-> p.hi, f2 |-> p.f2,
     f1 |-> IF 1 < level THEN BitOr(p.f1, v.vpn1) ELSE p.f1,
     f0 |-> IF 0 < level THEN BitOr(p.f0, v.vpn0) ELSE p.f0,
     off |-> BitOr(p.off, v.off)]

\* What map on the root table returns in a state.
MapNow(v) == Map(Memory, pt.root, v)

\* The last call was set_map(0x2000_0000, 0x4000_0000, 1, RWX) and it gave
\* no error.
ExampleInstalled ==
    /\ mres.op = "set_map"
    /\ mres.v = Some(Vaddr(0, 0, 256, 0, 0))
    /\ mres.p = Some(Paddr(0, 1, 0, 0, 0))
    /\ mres.level = 1
    /\ mres.permissions = 7
    /\ mres.res \in {"Ok", "panic"}

\* C5: after a set_map(v, p, L, perms) that succeeded on the root table,
\* map(v') returns p | (v' & ((1 << (12 + 9L)) - 1)) for every v' that
\* agrees with v in the bits at 12 + 9L and above; and the call
\* set_map(0x2000_0000, 0x4000_0000, 1, RWX) on a root table whose entry is
\* unused succeeds, after which map(0x2000_0FAB) is 0x4000_0FAB and
\* map(0x2010_0000) is 0x4010_0000.
CE_C5 ==
    /\ ~pt.panic =>
          \A i \in installed : \A v2 \in MapVaddrs :
              AgreesAbove(v2, i.v, i.level) =>
                  /\ MapNow(v2).res = "Ok"
                  /\ MapNow(v2).addr = Some(OrBelow(i.p, v2, i.level))
    /\ ExampleInstalled =>
          /\ mres.res = "Ok"
          /\ MapNow(Vaddr(0, 0, 256, 0, 4011)).addr
                = Some(Paddr(0, 1, 0, 0, 4011))
          /\ MapNow(Vaddr(0, 0, 256, 256, 0)).addr
                = Some(Paddr(0, 1, 0, 256, 0))

\* All of bits 63 .. 39 of a virtual address equal bit 38.
Canonical(v) == v.hi = IF v.vpn2 >= 256 THEN AllOnes ELSE 0

\* C6: map(v) returns UpperBitsMalformed for every virtual address v in
\* which some bit of 63 .. 39 differs from bit 38, whatever the table
\* holds, and never returns it when all of them equal bit 38.
Thm_C6 ==
    /\ mres.op = "map" =>
          (mres.res = "UpperBitsMalformed" <=> ~Canonical(mres.v[1]))
    /\ ~pt.panic =>
          \A v \in MapVaddrs :
              MapNow(v).res = "UpperBitsMalformed" <=> ~Canonical(v)

\* map has refused an address whose bit 39 alone is wrong, on a root table
\* that holds a mapping for the address without that bit.
Wit_C6 ==
    /\ mres.op = "map"
    /\ mres.res = "UpperBitsMalformed"
    /\ mres.v[1].hi = 1
    /\ mres.v[1].vpn2 = 0
    /\ IsBit(EntryAt(pt.tables[pt.root], 0), "valid")
    /\ MapNow([mres.v[1] EXCEPT !.hi = 0]).res = "Ok"

(***************************************************************************)
(* The bump allocator (heap.rs)                                            *)
(***************************************************************************)

\* A usize or a pointer is four 16-bit limbs, least significant first.
Limb == 2 ^ 16

\* The word of a small natural.
Word(n) == <<n % Limb, (n \div Limb) % Limb, 0, 0>>

\* usize::wrapping_add / pointer wrapping_add: the sum modulo 2^64.
WrappingAdd(a, b) ==
    LET s1 == a[1] + b[1]
        s2sum == a[2] + b[2] + s1 \div Limb
        s3 == a[3] + b[3] + s2sum \div Limb
        s4 == a[4] + b[4] + s3 \div Limb
    IN  <<s1 % Limb, s2sum % Limb, s3 % Limb, s4 % Limb>>

\* a < b as unsigned words.
Below(a, b) ==
    \E i \in 1 .. 4 :
        /\ a[i] < b[i]
        /\ \A j \in (i + 1) .. 4 : a[j] = b[j]

\* a - b for b <= a.
Minus(a, b) ==
    LET d1 == a[1] - b[1]
        d2 == a[2] - b[2] - (IF d1 < 0 THEN 1 ELSE 0)
        d3 == a[3] - b[3] - (IF d2 < 0 THEN 1 ELSE 0)
        d4 == a[4] - b[4] - (IF d3 < 0 THEN 1 ELSE 0)
    IN  <<d1 % Limb, d2 % Limb, d3 % Limb, d4 % Limb>>

\* pointer::align_offset for a byte pointer and an alignment that is a
\* power of two not above 2^16.
AlignOffset(p, align) == Word((align - (p[1] % align)) % align)

\* RAM_BASE = 0x4000_0000.
RAM_BASE == <<0, 16384, 0, 0>>

\* RAM_LENGTH = 1024 * 1024 * 1024 * 4.
RAM_LENGTH == <<0, 0, 1, 0>>

RAM_END == WrappingAdd(RAM_BASE, RAM_LENGTH)

\* RAM_RANGE.contains(&p).
RamRangeContains(p) == ~Below(p, RAM_BASE) /\ Below(p, RAM_END)

\* offset_between(to, from) followed by try_into::<usize>, as an Option:
\* None when the difference does not fit an isize or is negative.
OffsetBetween(to, from) ==
    IF to[4] >= Limb \div 2 \/ from[4] >= Limb \div 2 \/ Below(to, from)
    THEN None
    ELSE Some(Minus(to, from))

\* allocate with the offset left where it was.
BumpAllocateKeepOffset(heap_base, offset, layout) ==
    LET heap_top == WrappingAdd(heap_base, offset)
        aligned == WrappingAdd(heap_top, AlignOffset(heap_top, layout.align))
    IN  [panic |-> FALSE, offset |-> offset,
         res |-> Some([addr |-> aligned, size |-> layout.size])]

\* <&BumpAllocator as Allocator>::allocate: the offset is stored before the
\* range check, so a failed allocation moves it too.
BumpAllocate(heap_base, offset, layout) ==
    LET heap_top0 == WrappingAdd(heap_base, offset)
        aligned == WrappingAdd(heap_top0,
                               AlignOffset(heap_top0, layout.align))
        heap_top == WrappingAdd(aligned, layout.size)
        new_offset == OffsetBetween(heap_top, heap_base)
    IN  IF new_offset = None
        THEN [panic |-> TRUE, offset |-> offset, res |-> None]
        ELSE [panic |-> FALSE, offset |-> new_offset[1],
              res |-> IF RamRangeContains(heap_top)
                      THEN Some([addr |-> aligned, size |-> layout.size])
                      ELSE None]

\* <&BumpAllocator as Allocator>::deallocate.
BumpDeallocate(offset) == [panic |-> TRUE, offset |-> offset]

\* ---- specification SpecBump: any sequence of calls on BUMP_ALLOCATOR

\* The number of calls made to the allocator.
MaxBumpCalls == 4

\* The addresses get_heap_base may return: the linker places the heap
\* after the kernel image, at any byte of RAM.
HeapBases == {<<8192, 16392, 0, 0>>, <<8195, 16392, 0, 0>>}

\* Layouts: zero-sized ones, small ones, a page, one larger than RAM and
\* one that takes the heap top past isize::MAX.
BumpLayouts ==
    {[size |-> Word(0), align |-> 1], [size |-> Word(0), align |-> 8],
     [size |-> Word(1), align |-> 1], [size |-> Word(24), align |-> 8],
     [size |-> Word(4096), align |-> 4096],
     [size |-> <<0, 0, 1, 0>>, align |-> 1],
     [size |-> <<0, 0, 0, Limb \div 2 - 1>>, align |-> 8]}

InitBump ==
    /\ \E hb \in HeapBases :
          bump = [heap_base |-> hb, offset |-> Word(0), panic |-> FALSE,
                  done |-> <<>>, calls |-> 0,
                  last |-> [op |-> "new", before |-> Word(0)]]
    /\ ThreadIdle /\ SchedIdle /\ PageIdle /\ SlabIdle /\ MmuIdle
    /\ MutexIdle /\ ResourceIdle /\ RefIdle /\ TrapIdle
    /\ BitVecIdle

BAllocate ==
    /\ ~bump.panic
    /\ bump.calls < MaxBumpCalls
    /\ \E layout \in BumpLayouts :
          \E r \in {BumpAllocate(bump.heap_base, bump.offset, layout)} :
              bump' = [bump EXCEPT
                         !.offset = r.offset,
                         !.panic = r.panic,
                         !.done = IF r.res = None THEN @
                                  ELSE Append(@, r.res[1]),
                         !.calls = @ + 1,
                         !.last = [op |-> "allocate",
                                   before |-> bump.offset]]

BDeallocate ==
    /\ ~bump.panic
    /\ bump.calls < MaxBumpCalls
    /\ bump.done # <<>>
    /\ \E r \in {BumpDeallocate(bump.offset)} :
          bump' = [bump EXCEPT
                     !.offset = r.offset,
                     !.panic = r.panic,
                     !.calls = @ + 1,
                     !.last = [op |-> "deallocate", before |-> bump.offset]]

NextBump ==
    \/ (BAllocate /\ UNCHANGED <<threadVars, schedVars, pageVars, slabVars,
                                 mmuVars, mtx, rm, refs, ktrap, bvec>>)
    \/ (BDeallocate /\ UNCHANGED <<threadVars, schedVars, pageVars, slabVars,
                                   mmuVars, mtx, rm, refs, ktrap, bvec>>)

SpecBump == InitBump /\ [][NextBump]_vars

\* One byte past an allocation.
EndOf(a) == WrappingAdd(a.addr, a.size)

\* The offset has not decreased in the last call, and a call to deallocate
\* has panicked.
BumpOffsetAndDeallocate ==
    /\ ~Below(bump.offset, bump.last.before)
    /\ bump.last.op = "deallocate" => bump.panic

\* C11 as stated: for every pair of successful allocations a1 then a2 the
\* end of a2 is strictly greater than the end of a1, whatever the layouts;
\* the offset never decreases; every deallocate panics.
CE_C11 ==
    /\ \A i, j \in 1 .. Len(bump.done) :
          i < j => Below(EndOf(bump.done[i]), EndOf(bump.done[j]))
    /\ BumpOffsetAndDeallocate

\* C11 amended: for every pair of successful allocations a1 then a2, a2
\* starts at or after the end of a1, the end of a2 is at or after the end
\* of a1 and strictly after it when a2 has a non-zero size; the offset never
\* decreases; every deallocate panics.
Thm_C11 ==
    /\ \A i, j \in 1 .. Len(bump.done) :
          i < j =>
             /\ ~Below(bump.done[j].addr, EndOf(bump.done[i]))
             /\ ~Below(EndOf(bump.done[j]), EndOf(bump.done[i]))
             /\ bump.done[j].size # Word(0) =>
                   Below(EndOf(bump.done[i]), EndOf(bump.done[j]))
    /\ BumpOffsetAndDeallocate

\* Two allocations have succeeded, the second zero-sized and ending where
\* the first ends, and a later deallocate has panicked.
Wit_C11 ==
    /\ Len(bump.done) >= 2
    /\ bump.done[1].size # Word(0)
    /\ bump.done[2].size = Word(0)
    /\ EndOf(bump.done[2]) = EndOf(bump.done[1])
    /\ bump.last.op = "deallocate"
    /\ bump.panic

(***************************************************************************)
(* SpecPageS1: the page allocator initialised over 16 pages, then used     *)
(* for requests of 1 and of 4 pages and for frees of the blocks handed     *)
(* out; plast is the sequence of the calls made.                           *)
(***************************************************************************)

\* RAM_LENGTH / PAGE_SIZE of the scenario's machine.
S1Pages == 2 ^ 4

\* The number of calls made after init.
MaxS1Calls == 4

\* usize::div_ceil.
DivCeil(a, b) == (a + b - 1) \div b

\* The values of bytes_allocated at init: the heap top in bytes.
S1HeapTops == {PAGE_SIZE - 8, PAGE_SIZE, PAGE_SIZE + 8, 3 * PAGE_SIZE}

InitPageS1 ==
    /\ \E bytes_allocated \in S1HeapTops :
          /\ pa = PageInit(S1Pages, DivCeil(bytes_allocated, PAGE_SIZE))
          /\ plast = <<[op |-> "init", page |-> NullPage,
                        grain |-> bytes_allocated]>>
    /\ live = EmptyBag
    /\ freedSingly = {}
    /\ ThreadIdle /\ SchedIdle /\ SlabIdle /\ MmuIdle /\ AuxIdle

\* allocate_pages(1) or allocate_pages(4).
S1Alloc ==
    /\ ~pa.panic
    /\ Len(plast) <= MaxS1Calls
    /\ \E num_pages \in {1, 4} :
          \E r \in {AllocatePages(pa, num_pages)},
             grain \in {GrainFor(num_pages)} :
              /\ r.res = "Ok"
              /\ pa' = Overwrite(r.a, r.page, grain)
              /\ live' = live (+) SetToBag({<<r.page, grain>>})
              /\ plast' = Append(plast, [op |-> "allocate", page |-> r.page,
                                         grain |-> grain])
    /\ UNCHANGED freedSingly

\* deallocate_page of a block handed out, with its grain.
S1Free ==
    /\ ~pa.panic
    /\ Len(plast) <= MaxS1Calls
    /\ \E b \in BagToSet(live) :
          \E r \in {DeallocatePage(pa, b[1], b[2])} :
              /\ pa' = IF r.res = "Ok" THEN r.a ELSE Panicked(r.a)
              /\ live' = live (-) SetToBag({b})
              /\ plast' = Append(plast, [op |-> "deallocate", page |-> b[1],
                                         grain |-> b[2]])
    /\ UNCHANGED freedSingly

NextPageS1 ==
    \/ (S1Alloc /\ UNCHANGED <<threadVars, schedVars, slabVars, mmuVars,
                               auxVars>>)
    \/ (S1Free /\ UNCHANGED <<threadVars, schedVars, slabVars, mmuVars,
                              auxVars>>)

SpecPageS1 == InitPageS1 /\ [][NextPageS1]_vars

\* The calls were: init with the heap top at PAGE_SIZE, allocate 1 page
\* (A), allocate 4 pages (B), free A, free B.
S1Done ==
    /\ Len(plast) = 5
    /\ plast[1].grain = PAGE_SIZE
    /\ plast[2].op = "allocate" /\ plast[2].grain = 0
    /\ plast[3].op = "allocate" /\ plast[3].grain = 2
    /\ plast[4] = [plast[2] EXCEPT !.op = "deallocate"]
    /\ plast[5] = [plast[3] EXCEPT !.op = "deallocate"]

\* C12: after init over 16 pages with the heap top at PAGE_SIZE, allocate 1
\* page (A), allocate 4 pages (B), free A, free B, the grain-3 free list
\* holds exactly the block of pages 8..15 and 15 pages are free in total.
CE_C12 ==
    S1Done =>
       /\ Ring(pa, 3) = {1}
       /\ pa.avail[3] = {1}
       /\ Cardinality(FreePages(pa)) = 15

(***************************************************************************)
(* SpecSchedTrap: the scheduling loop of SpecSched with the cause of each  *)
(* trap recorded; kmain's loop is sequential code, so an iteration that    *)
(* can start does start.                                                   *)
(***************************************************************************)

\* exception.rs: ILLEGAL_INSTRUCTION, as a trap cause of the loop.
IllegalInstruction == <<FALSE, 2>>

InitSchedTrap ==
    /\ procs = [i \in ProcSlots |-> None]
    /\ kpc = "spawn"
    /\ cur = None
    /\ order = <<>>
    /\ sinceRun = [h \in Handles |-> 0]
    /\ ktrap = [cause |-> None, illegal |-> {}]
    /\ ThreadIdle /\ PageIdle /\ SlabIdle /\ MmuIdle
    /\ BumpIdle /\ MutexIdle /\ ResourceIdle /\ RefIdle
    /\ BitVecIdle

\* The trap of the running thread, recorded.
KTrapRecorded ==
    \E cause \in Causes, pc \in PcValues : \E a0 \in SyscallCodes(cause) :
        /\ KTrapWith(cause, pc, a0)
        /\ ktrap' = [cause |-> Some(cause),
                     illegal |-> IF cause = IllegalInstruction
                                 THEN ktrap.illegal \cup {cur[1]}
                                 ELSE ktrap.illegal]

\* The variables the scheduling loop does not touch.
OutsideSched ==
    <<threadVars, pageVars, slabVars, mmuVars, bump, mtx, rm, refs, bvec>>

\* One step of kmain that is not a trap.
KStep(A) == A /\ UNCHANGED <<OutsideSched, ktrap>>

NextSchedTrap ==
    \/ KStep(KSpawn)
    \/ KStep(KEnterLoop)
    \/ KStep(KScheduleLoop /\ UNCHANGED <<order, sinceRun>>)
    \/ (KTrapRecorded /\ UNCHANGED OutsideSched)

SpecSchedTrap ==
    /\ InitSchedTrap
    /\ [][NextSchedTrap]_vars
    /\ WF_vars(KStep(KScheduleLoop /\ UNCHANGED <<order, sinceRun>>))

\* Every thread of the table is a Zombie.
AllZombie ==
    \A h \in Handles :
        procs[h[1]] # None /\ procs[h[1]][1].threads[h[2]] # None
           => GetThread(procs, h).state = "Zombie"

\* A thread that trapped with an illegal instruction is a Zombie, is not the
\* scheduled thread, and is not what choose_next_thread returns next.
IllegalStaysDead ==
    \A h \in ktrap.illegal :
        /\ GetThread(procs, h).state = "Zombie"
        /\ cur # Some(h)
        /\ kpc = "choose" => ChooseNextThread(procs).handle # Some(h)

\* With every thread a Zombie the next choose_next_thread returns None.
NoneWhenAllZombie ==
    kpc = "choose" /\ AllZombie => ChooseNextThread(procs).handle = None

\* C13: a thread that traps with exception cause 2 is left Zombie by the
\* handler and is never returned by a later choose_next_thread; once every
\* thread is Zombie the next choose_next_thread returns None and the
\* scheduling loop ends by entering the shell.
Thm_C13 ==
    /\ [](IllegalStaysDead /\ NoneWhenAllZombie)
    /\ (kpc = "choose" /\ AllZombie) ~> (kpc = "shell")

\* The loop has entered the shell after every one of at least two threads
\* became a Zombie, one of them through an illegal instruction and the last
\* trap being one.
Wit_C13 ==
    /\ kpc = "shell"
    /\ AllZombie
    /\ Spawned(procs) >= 2
    /\ ktrap.illegal # {}
    /\ ktrap.cause = Some(IllegalInstruction)

\* The Ready threads of the non-exhausted processes of a table.
ReadyThreads(tbl) ==
    {h \in Handles : Live(tbl, h) /\ GetThread(tbl, h).state = "Ready"}

\* C14: choose_next_thread returns None exactly when no thread of a
\* non-exhausted process is Ready; when some thread is Ready, whatever its
\* priority, it returns a handle to a Ready thread whose need after this
\* round's increment is maximal among the Ready threads.
CE_C14 ==
    kpc = "choose" =>
       \A r \in {ChooseNextThread(procs)} :
          /\ r.handle = None <=> ReadyThreads(procs) = {}
          /\ r.handle # None =>
                /\ r.handle[1] \in ReadyThreads(procs)
                /\ \A g \in ReadyThreads(procs) :
                      GetThread(r.tbl, g).need
                         <= GetThread(r.tbl, r.handle[1]).need

(***************************************************************************)
(* Lock and Mutex (sync.rs)                                                *)
(***************************************************************************)

\* The attempts of claim_blocking's loop before it gives up; consts.rs has
\* 10_000_000, the loop is cut short here.
MAX_LOCK_ACQUIRE_CYCLES == 2

\* Lock::claim: compare_exchange(false, true).
LockClaim(claimed) ==
    IF claimed THEN [ok |-> FALSE, claimed |-> TRUE]
    ELSE [ok |-> TRUE, claimed |-> TRUE]

\* Lock::release: compare_exchange(true, false).
LockRelease(claimed) ==
    IF claimed THEN [ok |-> TRUE, claimed |-> FALSE]
    ELSE [ok |-> FALSE, claimed |-> FALSE]

\* Mutex::lock and Mutex::lock_mut: a guard of the kind asked for, or
\* AlreadyHeld.
MutexLock(claimed, kind) ==
    With(LAMBDA r :
            [claimed |-> r.claimed,
             guard |-> IF r.ok THEN Some(kind) ELSE None,
             res |-> IF r.ok THEN "Ok" ELSE "AlreadyHeld"],
         LockClaim(claimed))

\* The end of claim_blocking once its loop is left after limit further
\* attempts, the last claim having returned ok: the two assertions.
ClaimBlockingEnd(ok, limit) ==
    IF limit < MAX_LOCK_ACQUIRE_CYCLES THEN "Ok" ELSE "panic"

\* impl Drop for MutexGuard / MutexGuardMut.
GuardDrop(claimed) ==
    With(LAMBDA r : [claimed |-> r.claimed, panic |-> ~r.ok],
         LockRelease(claimed))

\* ---- specification SpecMutex: several contexts use one Mutex

\* The number of contexts.
NumContexts == 3

Contexts == 1 .. NumContexts

GuardKinds == {"shared", "mut"}

\* The contexts that hold a guard.
Guards(ctx) == {c \in Contexts : ctx[c].guard # None}

InitMutex ==
    /\ mtx = [claimed |-> FALSE,
              ctx |-> [c \in Contexts |->
                         [pc |-> "idle", limit |-> 0, guard |-> None]],
              panic |-> FALSE,
              last |-> [c |-> 0, op |-> "new", res |-> "Ok",
                        held |-> FALSE, guards |-> {}]]
    /\ ThreadIdle /\ SchedIdle /\ PageIdle /\ SlabIdle /\ MmuIdle
    /\ BumpIdle /\ ResourceIdle /\ RefIdle /\ TrapIdle
    /\ BitVecIdle

\* What an operation of context c leaves in the history.
MutexLast(c, op, res) ==
    [c |-> c, op |-> op, res |-> res, held |-> mtx.claimed,
     guards |-> Guards(mtx.ctx)]

\* lock() or lock_mut() by a context that is not inside lock_blocking.
MLock ==
    /\ ~mtx.panic
    /\ \E c \in Contexts, kind \in GuardKinds :
          /\ mtx.ctx[c].pc = "idle"
          /\ \E r \in {MutexLock(mtx.claimed, kind)} :
                mtx' = [mtx EXCEPT
                          !.claimed = r.claimed,
                          !.ctx[c].guard = IF r.res = "Ok" THEN r.guard
                                           ELSE @,
                          !.last = MutexLast(c, "lock", r.res)]

\* lock_blocking() or lock_blocking_mut() by a context that holds no guard:
\* the first claim of claim_blocking.
MLockBlocking ==
    /\ ~mtx.panic
    /\ \E c \in Contexts, kind \in GuardKinds :
          /\ mtx.ctx[c].pc = "idle"
          /\ mtx.ctx[c].guard = None
          /\ \E r \in {LockClaim(mtx.claimed)} :
                mtx' = [mtx EXCEPT
                          !.claimed = r.claimed,
                          !.ctx[c] =
                             IF r.ok
                             THEN [pc |-> "idle", limit |-> 0,
                                   guard |-> Some(kind)]
                             ELSE [pc |-> kind, limit |-> 0,
                                   guard |-> None],
                          !.last = MutexLast(c, "lock_blocking",
                                             IF r.ok THEN "Ok"
                                             ELSE "spinning")]

\* One more turn of the loop of claim_blocking, and the end of
\* claim_blocking when the loop is left.
MSpin ==
    /\ ~mtx.panic
    /\ \E c \in Contexts :
          /\ mtx.ctx[c].pc \in GuardKinds
          /\ \E r \in {LockClaim(mtx.claimed)},
                limit \in {mtx.ctx[c].limit + 1} :
                IF ~r.ok /\ limit < MAX_LOCK_ACQUIRE_CYCLES
                THEN mtx' = [mtx EXCEPT
                               !.ctx[c].limit = limit,
                               !.last = MutexLast(c, "lock_blocking",
                                                  "spinning")]
                ELSE \E res \in {ClaimBlockingEnd(r.ok, limit)} :
                        mtx' = [mtx EXCEPT
                                  !.claimed = r.claimed,
                                  !.panic = res = "panic",
                                  !.ctx[c] =
                                     IF res = "Ok"
                                     THEN [pc |-> "idle", limit |-> 0,
                                           guard |-> Some(mtx.ctx[c].pc)]
                                     ELSE [@ EXCEPT !.limit = limit],
                                  !.last = MutexLast(c, "lock_blocking",
                                                     res)]

\* A guard goes out of scope.
MDrop ==
    /\ ~mtx.panic
    /\ \E c \in Guards(mtx.ctx) :
          \E r \in {GuardDrop(mtx.claimed)} :
              mtx' = [mtx EXCEPT
                        !.claimed = r.claimed,
                        !.panic = r.panic,
                        !.ctx[c].guard = None,
                        !.last = MutexLast(c, "drop",
                                           IF r.panic THEN "panic"
                                           ELSE "Ok")]

\* The variables the mutex does not touch.
OutsideMutex ==
    <<threadVars, schedVars, pageVars, slabVars, mmuVars, bump, rm, refs,
      ktrap, bvec>>

NextMutex ==
    \/ (MLock /\ UNCHANGED OutsideMutex)
    \/ (MLockBlocking /\ UNCHANGED OutsideMutex)
    \/ (MSpin /\ UNCHANGED OutsideMutex)
    \/ (MDrop /\ UNCHANGED OutsideMutex)

SpecMutex == InitMutex /\ [][NextMutex]_vars

\* At most one guard exists, and the lock is held while it does.
OneGuard ==
    /\ Cardinality(Guards(mtx.ctx)) <= 1
    /\ Guards(mtx.ctx) # {} => mtx.claimed

\* A lock or lock_mut made while a guard existed returned AlreadyHeld and
\* left the guard and the lock as they were.
HeldIsRefused ==
    mtx.last.op = "lock" /\ mtx.last.guards # {} =>
       /\ mtx.last.res = "AlreadyHeld"
       /\ Guards(mtx.ctx) = mtx.last.guards
       /\ mtx.claimed

\* A drop released the lock, and a claim made while the lock was free
\* gave its caller a guard.
FreeIsGranted ==
    /\ mtx.last.op = "drop" => mtx.last.res = "Ok" /\ ~mtx.claimed
    /\ mtx.last.op \in {"lock", "lock_blocking"} /\ ~mtx.last.held =>
          /\ mtx.last.res = "Ok"
          /\ Guards(mtx.ctx) = {mtx.last.c}

\* C15: under any interleaving of lock, lock_mut, lock_blocking,
\* lock_blocking_mut and guard drops by several contexts on one Mutex at
\* most one guard exists at any time; a non-blocking attempt made while a
\* guard exists returns AlreadyHeld and does not affect the holder; after
\* the guard is dropped the next claim succeeds.
CE_C15 == OneGuard /\ HeldIsRefused /\ FreeIsGranted

(***************************************************************************)
(* SpecResource: one ResourceManager of thread slots; threads are claimed  *)
(* into it and die in it in any order.                                     *)
(***************************************************************************)

\* SIZE of the manager.
RmSize == 3

RmSlots == 0 .. (RmSize - 1)

\* claim_first without the test of the new resource.
ClaimFirstUnchecked(data, new) ==
    With(LAMBDA index :
            IF index = None
            THEN [res |-> "NoSpaceAvailable", index |-> None, data |-> data]
            ELSE [res |-> "Ok", index |-> index,
                  data |-> [data EXCEPT ![index[1]] = new]],
         FirstExhausted([i \in DOMAIN data |-> ThreadExhausted(data[i])]))

\* ResourceManager::claim_first, for R = Option<ThreadControlBlock>.
ClaimFirst(data, new) ==
    IF ThreadExhausted(new)
    THEN [res |-> "AddedExhaustedResource", index |-> None, data |-> data]
    ELSE With(LAMBDA index :
                 IF index = None
                 THEN [res |-> "NoSpaceAvailable", index |-> None,
                       data |-> data]
                 ELSE [res |-> "Ok", index |-> index,
                       data |-> [data EXCEPT ![index[1]] = new]],
              FirstExhausted([i \in DOMAIN data |->
                                 ThreadExhausted(data[i])]))

\* The resources a caller may hand to claim_first.
NewResources ==
    {None} \cup {Some(NewThread(p, EntryPc)) : p \in {1, 3}}
           \cup {Some([NewThread(1, EntryPc) EXCEPT !.state = "Zombie"])}

InitResource ==
    /\ rm = [data |-> [i \in RmSlots |-> None],
             last |-> [op |-> "new", before |-> [i \in RmSlots |-> None],
                       new |-> None, res |-> "Ok", index |-> None]]
    /\ ThreadIdle /\ SchedIdle /\ PageIdle /\ SlabIdle /\ MmuIdle
    /\ BumpIdle /\ MutexIdle /\ RefIdle /\ TrapIdle
    /\ BitVecIdle

RClaimFirst ==
    \E new \in NewResources :
        \E r \in {ClaimFirst(rm.data, new)} :
            rm' = [data |-> r.data,
                   last |-> [op |-> "claim_first", before |-> rm.data,
                             new |-> new, res |-> r.res,
                             index |-> r.index]]

\* A thread of the manager is killed through get_absolute_mut.
RKill ==
    \E i \in RmSlots :
        /\ rm.data[i] # None
        /\ \E r \in {Kill(rm.data[i][1])} :
              /\ ~r.panic
              /\ rm' = [data |-> [rm.data EXCEPT ![i] = Some(r.tcb)],
                        last |-> [op |-> "kill", before |-> rm.data,
                                  new |-> None, res |-> "Ok",
                                  index |-> Some(i)]]

\* The variables the resource manager does not touch.
OutsideResource ==
    <<threadVars, schedVars, pageVars, slabVars, mmuVars, bump, mtx, refs,
      ktrap, bvec>>

NextResource ==
    \/ (RClaimFirst /\ UNCHANGED OutsideResource)
    \/ (RKill /\ UNCHANGED OutsideResource)

SpecResource == InitResource /\ [][NextResource]_vars

\* The exhausted slots of a manager's data.
ExhaustedSlots(data) == {i \in DOMAIN data : ThreadExhausted(data[i])}

\* C16: claim_first(new) stores new in the lowest-indexed exhausted slot
\* and returns that index, leaving every other slot unchanged; it returns
\* AddedExhaustedResource when new is exhausted and NoSpaceAvailable when no
\* slot is exhausted, and in both error cases no slot changes.
Thm_C16 ==
    rm.last.op = "claim_first" =>
       IF ThreadExhausted(rm.last.new)
       THEN rm.last.res = "AddedExhaustedResource" /\ rm.data = rm.last.before
       ELSE IF ExhaustedSlots(rm.last.before) = {}
       THEN rm.last.res = "NoSpaceAvailable" /\ rm.data = rm.last.before
       ELSE /\ rm.last.res = "Ok"
            /\ rm.last.index # None
            /\ rm.last.index[1] \in ExhaustedSlots(rm.last.before)
            /\ \A j \in ExhaustedSlots(rm.last.before) :
                  rm.last.index[1] <= j
            /\ rm.data = [rm.last.before EXCEPT
                             ![rm.last.index[1]] = rm.last.new]

\* A claim has filled a slot that is not the first one while a later slot
\* was exhausted too, the slot having held a dead thread.
Wit_C16 ==
    /\ rm.last.op = "claim_first"
    /\ rm.last.res = "Ok"
    /\ rm.last.index[1] > 0
    /\ rm.last.before[rm.last.index[1]] # None
    /\ Cardinality(ExhaustedSlots(rm.last.before)) >= 2

(***************************************************************************)
(* SpecTable: a process table of two processes whose threads are driven    *)
(* through their handles in any order (activate, the trap that ends an     *)
(* activation, consider, resolve_interrupt, kill), next to                 *)
(* choose_next_thread on the whole table. kpc is the last operation, the   *)
(* thread it was applied to or returned, and its result.                   *)
(***************************************************************************)

\* The threads of the table: the main threads of process slots 0 and 1.
TableThreads == {<<0, 0>>, <<1, 0>>}

\* The table after two spawns with the given priorities.
TableOf(p1, p2) ==
    ClaimFirstProcess(ClaimFirstProcess([i \in ProcSlots |-> None],
                                        NewProcess(p1)).tbl,
                      NewProcess(p2)).tbl

InitTable ==
    /\ \E p1 \in {0, 1}, p2 \in {1, 3} : procs = TableOf(p1, p2)
    /\ kpc = [op |-> "new", h |-> None, res |-> "Ok"]
    /\ cur = None
    /\ order = <<>>
    /\ sinceRun = <<>>
    /\ ThreadIdle /\ PageIdle /\ SlabIdle /\ MmuIdle /\ AuxIdle

\* No thread's need passes MaxNeed when the Ready threads are considered.
NeedsFit ==
    \A h \in TableThreads :
        GetThread(procs, h).need + GetThread(procs, h).priority <= MaxNeed

\* choose_next_thread; the handle returned is dropped by the caller.
ZChoose ==
    /\ NeedsFit
    /\ \E r \in {ChooseNextThread(procs)} :
          /\ procs' = DropHandle(r.tbl, r.handle)
          /\ kpc' = [op |-> "choose", h |-> r.handle,
                     res |-> IF r.handle = None THEN "None" ELSE "Some"]

ZActivate ==
    \E h \in TableThreads :
        \E r \in {ActivateEnter(GetThread(procs, h))} :
            /\ procs' = SetThread(procs, h, r.tcb)
            /\ kpc' = [op |-> "activate", h |-> Some(h), res |-> r.res]

\* The trap that brings a Running thread back into activate.
ZTrap ==
    \E h \in TableThreads, pc \in PcValues :
        /\ GetThread(procs, h).state = "Running"
        /\ procs' = SetThread(procs, h,
                              ActivateReturn(GetThread(procs, h), pc))
        /\ kpc' = [op |-> "trap", h |-> Some(h), res |-> "Ok"]

ZConsider ==
    /\ NeedsFit
    /\ \E h \in TableThreads, best \in {0, 4} :
          \E r \in {Consider(GetThread(procs, h), best)} :
              /\ procs' = SetThread(procs, h, r.tcb)
              /\ kpc' = [op |-> "consider", h |-> Some(h),
                         res |-> IF r.ret = None THEN "None" ELSE "Some"]

ZResolve ==
    \E h \in TableThreads, synchronous \in BOOLEAN :
        \E r \in {ResolveInterrupt(GetThread(procs, h), synchronous)} :
            /\ procs' = SetThread(procs, h, r.tcb)
            /\ kpc' = [op |-> "resolve_interrupt", h |-> Some(h),
                       res |-> r.res]

\* kill of a thread that is not Running (kill of a Running thread panics).
ZKill ==
    \E h \in TableThreads :
        \E r \in {Kill(GetThread(procs, h))} :
            /\ ~r.panic
            /\ procs' = SetThread(procs, h, r.tcb)
            /\ kpc' = [op |-> "kill", h |-> Some(h), res |-> "Ok"]

\* One operation on the table.
ZStep(A) ==
    /\ A
    /\ UNCHANGED <<cur, order, sinceRun, threadVars, pageVars, slabVars,
                   mmuVars, auxVars>>

NextTable ==
    \/ ZStep(ZChoose)
    \/ ZStep(ZActivate)
    \/ ZStep(ZTrap)
    \/ ZStep(ZConsider)
    \/ ZStep(ZResolve)
    \/ ZStep(ZKill)

SpecTable == InitTable /\ [][NextTable]_vars

\* The thread of handle h is a Zombie.
IsZombie(tbl, h) == GetThread(tbl, h).state = "Zombie"

\* C17: a thread that is a Zombie stays a Zombie under every later
\* activate, consider, resolve_interrupt and kill; it is never returned by
\* choose_next_thread, never activated again, and its need is no longer
\* incremented.
Thm_C17 ==
    [][\A h \in TableThreads :
          IsZombie(procs, h) =>
             /\ IsZombie(procs', h)
             /\ GetThread(procs', h).need = GetThread(procs, h).need
             /\ ~(kpc'.op = "choose" /\ kpc'.h = Some(h))
             /\ ~(kpc'.op = "activate" /\ kpc'.h = Some(h)
                    /\ kpc'.res = "Ok")]_vars

\* An activate has just been refused on a Zombie whose need stands where it
\* was when the thread was last activated, while the other thread is Ready
\* and has been considered since.
Wit_C17 ==
    \E h \in TableThreads, g \in TableThreads :
        /\ g # h
        /\ IsZombie(procs, h)
        /\ kpc = [op |-> "activate", h |-> Some(h), res |-> "ThreadNotReady"]
        /\ GetThread(procs, g).state = "Ready"
        /\ GetThread(procs, g).need > 2 * GetThread(procs, g).priority

\* What C18 expects of set_map at the given level on a table of level
\* table_level whose indexed entry is e.
ExpectedSetMap(e, level, table_level) ==
    IF level > table_level THEN "ImpossibleLevel"
    ELSE IF level = table_level /\ IsBit(e, "valid") /\ IsPointer(e)
    THEN "MappingIsActivePointer"
    ELSE IF IsBit(e, "valid") /\ ~IsPointer(e)
    THEN "AddressAlreadyInUse"
    ELSE "Ok"

\* C18: set_map(v, p, level, perms) on a table of level L returns
\* ImpossibleLevel when level > L; for level = L it returns
\* MappingIsActivePointer when the indexed entry is a valid pointer and
\* AddressAlreadyInUse when it is a valid leaf; for level < L it returns
\* AddressAlreadyInUse when the indexed entry is a valid leaf; in every other
\* case it succeeds.
CE_C18 ==
    [][mres'.op = "set_map" =>
          mres'.res =
             ExpectedSetMap(EntryAt(pt.tables[pt.root],
                                    VpnAt(mres'.v[1], Level(Memory, pt.root))),
                            mres'.level, Level(Memory, pt.root))]_vars

(***************************************************************************)
(* References to one page table taken and dropped by several harts         *)
(* (mmu.rs).  The table is the one Sv39PageTable::new makes.  A hart goes  *)
(* through an operation in the steps other harts can see: every attempt of *)
(* acquire_reference_lock, the part of the operation done with the handle, *)
(* and the drop of the handle.  The parent's entry is dropped by a hart    *)
(* that has made the reference of as_pointer_blocking; it has the entry    *)
(* mutably, so no hart is then on its way to a new reference through the   *)
(* entry, and none sets out after it.                                      *)
(***************************************************************************)

\* The harts that use the table.
NumRefContexts == 3

RefContexts == 1 .. NumRefContexts

RefOps == {"ref_new", "mut_new", "ref_drop", "mut_drop", "clear_parent"}

NewOps == {"ref_new", "mut_new"}

RefContextIdle == [pc |-> "idle", op |-> "none", attempts |-> 0,
                   held |-> "none"]

\* The table the harts refer to.
RefTable == pt.root

TableLives == RefTable \in DOMAIN pt.tables

InitRef ==
    /\ \E top \in {MmuHeapTop} :
       \E r \in {TableNew([tables |-> <<>>,
                           slab |-> [headers |-> <<>>, panic |-> FALSE],
                           pa |-> PageInit(NumPages, top),
                           panic |-> FALSE, pages |-> {}, boxes |-> {}])} :
          /\ pt = [tables |-> r.m.tables, root |-> r.page,
                   panic |-> r.m.panic]
          /\ slab = r.m.slab
          /\ pa = r.m.pa
          /\ live = SetToBag({<<p, 0>> : p \in r.m.pages})
          /\ slabLive = SetToBag({<<b, TableLayout>> : b \in r.m.boxes})
    /\ installed = {}
    /\ satp = None
    /\ mres = [op |-> "new", v |-> None, p |-> None, level |-> 0,
               permissions |-> 0, res |-> "Ok", addr |-> None]
    /\ slast = [op |-> "init", ptr |-> None, before |-> None]
    /\ s2 = None
    /\ freedSingly = {}
    /\ plast = [op |-> "init", page |-> NullPage, grain |-> 0]
    /\ refs = [ctx |-> [c \in RefContexts |-> RefContextIdle],
               last |-> [c |-> 0, step |-> "init", op |-> "none",
                         ok |-> TRUE]]
    /\ ThreadIdle /\ SchedIdle
    /\ BumpIdle /\ MutexIdle /\ ResourceIdle /\ TrapIdle
    /\ BitVecIdle

\* The step of hart c is recorded and its position becomes ctx.
RefBecomes(c, ctx, step, ok) ==
    refs' = [ctx |-> [refs.ctx EXCEPT ![c] = ctx],
             last |-> [c |-> c, step |-> step,
                       op |-> IF step = "begin" THEN ctx.op
                              ELSE refs.ctx[c].op,
                       ok |-> ok]]

RefUntouched ==
    UNCHANGED <<installed, mres, satp, slast, s2, freedSingly, plast>>

\* A hart sets out on an operation: a new reference through the parent's
\* entry, the drop of the reference it holds, or the drop of the parent's
\* entry.
RBegin(c) ==
    /\ ~pt.panic /\ TableLives
    /\ refs.ctx[c].pc = "idle"
    /\ \E op \in RefOps :
          /\ op \in NewOps =>
                /\ refs.ctx[c].held = "none"
                /\ HasLivingParentReference(Memory, RefTable)
                /\ \A d \in RefContexts : refs.ctx[d].op # "clear_parent"
          /\ op = "ref_drop" => refs.ctx[c].held = "ref"
          /\ op = "mut_drop" => refs.ctx[c].held = "mut"
          /\ op = "clear_parent" =>
                /\ refs.ctx[c].held = "ref"
                /\ HasLivingParentReference(Memory, RefTable)
                /\ \A d \in RefContexts : refs.ctx[d].op \notin NewOps
          /\ RefBecomes(c, [refs.ctx[c] EXCEPT !.pc = "spin", !.op = op,
                                               !.attempts = 0],
                        "begin", TRUE)
    /\ UNCHANGED <<pt, slab, pa, live, slabLive>>
    /\ RefUntouched

\* One turn of the loop of acquire_reference_lock: the swap of the lock
\* from 0 to 1 and, when it succeeds, the making of the handle; the
\* attempt that is the last of the loop ends in the panic.
RAttempt(c) ==
    /\ ~pt.panic /\ TableLives
    /\ refs.ctx[c].pc = "spin"
    /\ refs.ctx[c].attempts < MAX_LOCK_ACQUIRE_CYCLES
    /\ IF Reserved(Memory, RefTable, REFERENCE_LOCK_INDEX) = 0
       THEN /\ MemoryBecomes(
                   IncrementReferenceCount(
                       SetReservedAt(Memory, RefTable,
                                     REFERENCE_LOCK_INDEX, 1),
                       RefTable))
            /\ RefBecomes(c, [refs.ctx[c] EXCEPT !.pc = "locked"],
                          "attempt", TRUE)
       ELSE /\ MemoryBecomes(
                   IF refs.ctx[c].attempts + 1 < MAX_LOCK_ACQUIRE_CYCLES
                   THEN Memory ELSE MmuPanic(Memory))
            /\ RefBecomes(c, [refs.ctx[c] EXCEPT
                                 !.attempts = refs.ctx[c].attempts + 1],
                          "attempt", FALSE)
    /\ RefUntouched

\* The hart c holds the handle and is to do the body of op.
AtBody(c, op) ==
    /\ ~pt.panic /\ TableLives
    /\ refs.ctx[c].pc = "locked"
    /\ refs.ctx[c].op = op

\* The body is done: the memory is m, the operation has the result ok and
\* leaves the hart with the reference held.
BodyDone(c, m, ok, held) ==
    /\ MemoryBecomes(m)
    /\ RefBecomes(c, [refs.ctx[c] EXCEPT !.pc = "drop", !.held = held],
                  "body", ok)
    /\ RefUntouched

\* Sv39PageTableRef::new with the handle.
RRefNew(c) ==
    /\ AtBody(c, "ref_new")
    /\ IF HasMutReference(Memory, RefTable)
       THEN BodyDone(c, Memory, FALSE, "none")
       ELSE BodyDone(c, IncrementReferenceCount(Memory, RefTable), TRUE,
                     "ref")

\* Sv39PageTableMutRef::new with the handle.
RMutRefNew(c) ==
    /\ AtBody(c, "mut_new")
    /\ \E r \in {ClaimMutReference(Memory, RefTable)} :
          IF r.ok
          THEN BodyDone(c, IncrementReferenceCount(r.m, RefTable), TRUE,
                        "mut")
          ELSE BodyDone(c, r.m, FALSE, "none")

\* Drop for Sv39PageTableRef with the handle.
RRefDrop(c) ==
    /\ AtBody(c, "ref_drop")
    /\ IF HasMutReference(Memory, RefTable)
       THEN BodyDone(c, MmuPanic(Memory), FALSE, "ref")
       ELSE BodyDone(c, DecrementReferenceCount(Memory, RefTable), TRUE,
                     "none")

\* Drop for Sv39PageTableMutRef with the handle.
RMutRefDrop(c) ==
    /\ AtBody(c, "mut_drop")
    /\ BodyDone(c,
                ReleaseMutReference(
                    DecrementReferenceCount(Memory, RefTable), RefTable),
                TRUE, "none")

\* drop_pointer_ref_if_pointer with the handle: the parent's reference is
\* no longer alive.
RClearParent(c) ==
    /\ AtBody(c, "clear_parent")
    /\ BodyDone(c, ClearParentReferenceAlive(Memory, RefTable), TRUE, "ref")

\* The handle of hart c is dropped.
RHandleDrop(c) ==
    /\ ~pt.panic /\ TableLives
    /\ refs.ctx[c].pc = "drop"
    /\ MemoryBecomes(HandleDrop(Memory, RefTable))
    /\ RefBecomes(c, [refs.ctx[c] EXCEPT !.pc = "idle", !.op = "none"],
                  "handle_drop", TRUE)
    /\ RefUntouched

OutsideRef == <<threadVars, schedVars, bump, mtx, rm, ktrap, bvec>>

NextRef ==
    \/ \E c \in RefContexts : (RBegin(c) /\ UNCHANGED OutsideRef)
    \/ \E c \in RefContexts : (RAttempt(c) /\ UNCHANGED OutsideRef)
    \/ \E c \in RefContexts : (RRefNew(c) /\ UNCHANGED OutsideRef)
    \/ \E c \in RefContexts : (RMutRefNew(c) /\ UNCHANGED OutsideRef)
    \/ \E c \in RefContexts : (RRefDrop(c) /\ UNCHANGED OutsideRef)
    \/ \E c \in RefContexts : (RMutRefDrop(c) /\ UNCHANGED OutsideRef)
    \/ \E c \in RefContexts : (RClearParent(c) /\ UNCHANGED OutsideRef)
    \/ \E c \in RefContexts : (RHandleDrop(c) /\ UNCHANGED OutsideRef)

SpecRef == InitRef /\ [][NextRef]_vars

\* The references other harts hold.
HeldByOthers(c) ==
    {d \in RefContexts \ {c} : refs.ctx[d].held # "none"}

\* No hart holds an exclusive reference while another holds a reference.
MutIsAlone ==
    \A c \in RefContexts :
        refs.ctx[c].held = "mut" => HeldByOthers(c) = {}

\* The step taken is the body of op.
BodyStep(op) == refs'.last.step = "body" /\ refs'.last.op = op

\* An exclusive reference is refused when another reference is live or the
\* exclusive flag is set, a shared one while the exclusive flag is set.
RefusedWhenTaken ==
    /\ BodyStep("mut_new")
       /\ (HeldByOthers(refs'.last.c) # {}
           \/ HasMutReference(Memory, RefTable))
       => ~refs'.last.ok
    /\ BodyStep("ref_new") /\ HasMutReference(Memory, RefTable)
       => ~refs'.last.ok

\* C19: under every interleaving of the steps of the harts no exclusive
\* reference to the table is live together with another reference; the
\* making of an exclusive reference fails when another reference is live or
\* the exclusive flag is set, and the making of a shared one fails while
\* the exclusive flag is set.
Thm_C19 == []MutIsAlone /\ [][RefusedWhenTaken]_vars

\* A hart is refused an exclusive reference while two others hold shared
\* ones.
Wit_C19 ==
    /\ refs # None
    /\ ~pt.panic
    /\ refs.last.step = "body"
    /\ refs.last.op = "mut_new"
    /\ ~refs.last.ok
    /\ Cardinality({d \in RefContexts : refs.ctx[d].held = "ref"}) = 2

\* The step taken is the drop of a handle.
HandleDropStep == refs'.last.step = "handle_drop"

\* The count is 0 once the handle has taken its own part off, no exclusive
\* reference is held and the parent's reference is not alive.
Unreferenced ==
    /\ ReferenceCount(Memory, RefTable) = 1
    /\ ~HasMutReference(Memory, RefTable)
    /\ ~HasLivingParentReference(Memory, RefTable)

\* The drop of a handle frees the table exactly when it is unreferenced,
\* and leaves the lock of a table it does not free released.
FreedIffUnreferenced ==
    HandleDropStep =>
        /\ ~pt'.panic
        /\ (RefTable \notin DOMAIN pt'.tables) <=> Unreferenced
        /\ (RefTable \notin DOMAIN pt'.tables)
           <=> <<<<RefTable, 0>>, TableLayout>> \notin BagToSet(slabLive')
        /\ RefTable \in DOMAIN pt'.tables =>
              EntryAt(pt'.tables[RefTable], REFERENCE_LOCK_INDEX).reserved
              = 0

\* A table to which a reference is held is there.
UsedTableLives ==
    (\E c \in RefContexts : refs.ctx[c].held # "none") => TableLives

\* The lock of a table is held only by a hart that has the handle.
LockOnlyWithHandle ==
    TableLives /\ ~pt.panic
    /\ (\A c \in RefContexts : refs.ctx[c].pc \notin {"locked", "drop"})
    => Reserved(Memory, RefTable, REFERENCE_LOCK_INDEX) = 0

\* C20: the drop of a handle frees the page of the table if and only if the
\* count is 0, no exclusive reference is held and the parent's reference is
\* not alive, and otherwise releases the lock; a table with a live parent
\* reference or a live reference is never freed, and no lock stays held on
\* a table that is kept.
Thm_C20 ==
    /\ [][FreedIffUnreferenced]_vars
    /\ [](UsedTableLives /\ LockOnlyWithHandle)

\* The drop of a handle has freed the table.
Wit_C20 ==
    /\ refs # None
    /\ refs.last.step = "handle_drop"
    /\ ~TableLives
    /\ BagToSet(slabLive) = {}


(***************************************************************************)
(* The needs of the threads over one round of the scheduling loop          *)
(***************************************************************************)

\* The step is a round: choose_next_thread has a winner and the winner is
\* activated.
RoundStep == kpc = "choose" /\ kpc' = "running"

\* The need of the winner is its priority, the need of every other thread
\* that was Ready has grown by its priority, and the need of a thread that
\* was not Ready is as it was.
NeedsAfterRound ==
    RoundStep =>
        /\ Threads(procs') = Threads(procs)
        /\ GetThread(procs', cur'[1]).need
           = GetThread(procs', cur'[1]).priority
        /\ \A h \in Threads(procs) \ {cur'[1]} :
              GetThread(procs', h).need
              = IF GetThread(procs, h).state = "Ready"
                THEN GetThread(procs, h).need + GetThread(procs, h).priority
                ELSE GetThread(procs, h).need

ReturnsHolding ==
    mtx.last.op = "lock_blocking" /\ mtx.last.res = "Ok" =>
       /\ mtx.claimed
       /\ Guards(mtx.ctx) = {mtx.last.c}

\* claim_blocking has panicked only after a last claim that failed, the
\* lock being held by another at that claim.
PanicsOnlyUnheld ==
    mtx.last.op = "lock_blocking" /\ mtx.last.res = "panic" => mtx.last.held

\* C22: claim_blocking either returns with the lock held by its caller or
\* panics, and it panics only when the caller has not got the lock after
\* all its attempts: it never panics after one of its claims has
\* succeeded, so a panic never leaves the lock claimed by the caller that
\* panics.
CE_C22 == mtx # None => ReturnsHolding /\ PanicsOnlyUnheld


\* The references of each kind that are live, and whether a hart has the
\* handle.
SharedLive == Cardinality({c \in RefContexts : refs.ctx[c].held = "ref"})

ExclusiveLive == Cardinality({c \in RefContexts : refs.ctx[c].held = "mut"})

HandleHeld ==
    IF \E c \in RefContexts : refs.ctx[c].pc \in {"locked", "drop"}
    THEN 1 ELSE 0

InitCount ==
    /\ \E top \in {MmuHeapTop} :
       \E r \in {TableNew([tables |-> <<>>,
                           slab |-> [headers |-> <<>>, panic |-> FALSE],
                           pa |-> PageInit(NumPages, top),
                           panic |-> FALSE, pages |-> {}, boxes |-> {}])} :
          /\ pt = [tables |-> r.m.tables, root |-> r.page,
                   panic |-> r.m.panic]
          /\ slab = r.m.slab
          /\ pa = r.m.pa
          /\ live = SetToBag({<<p, 0>> : p \in r.m.pages})
          /\ slabLive = SetToBag({<<b, TableLayout>> : b \in r.m.boxes})
    /\ installed = {}
    /\ satp = None
    /\ mres = [op |-> "new", v |-> None, p |-> None, level |-> 0,
               permissions |-> 0, res |-> "Ok", addr |-> None]
    /\ slast = [op |-> "init", ptr |-> None, before |-> None]
    /\ s2 = None
    /\ freedSingly = {}
    /\ plast = [op |-> "init", page |-> NullPage, grain |-> 0]
    /\ refs = [op |-> "new", before |-> 0]
    /\ ThreadIdle /\ SchedIdle
    /\ BumpIdle /\ MutexIdle /\ ResourceIdle /\ TrapIdle
    /\ BitVecIdle

\* A call of increment_reference_count.
CIncrement ==
    /\ ~pt.panic
    /\ MemoryBecomes(IncrementReferenceCount(Memory, pt.root))
    /\ refs' = [op |-> "increment",
                before |-> ReferenceCount(Memory, pt.root)]
    /\ RefUntouched

\* A call of decrement_reference_count.
CDecrement ==
    /\ ~pt.panic
    /\ MemoryBecomes(DecrementReferenceCount(Memory, pt.root))
    /\ refs' = [op |-> "decrement",
                before |-> ReferenceCount(Memory, pt.root)]
    /\ RefUntouched

NextCount ==
    \/ (CIncrement /\ UNCHANGED OutsideRef)
    \/ (CDecrement /\ UNCHANGED OutsideRef)

SpecCount == InitCount /\ [][NextCount]_vars

\* C24: the count put together from the four pairs of bits, the lowest
\* pair in entry 1, is a counter of 8 bits: increment_reference_count
\* takes every c of 0..254 to c + 1 and panics at 255, and
\* decrement_reference_count takes every c of 1..255 to c - 1 and panics
\* at 0.
Thm_C24 ==
    /\ refs.before \in 0 .. 255
    /\ ~pt.panic =>
          Reserved(Memory, pt.root, 1)
          = ReferenceCount(Memory, pt.root) % 4
    /\ refs.op = "increment" =>
          IF refs.before <= 254
          THEN ~pt.panic /\ ReferenceCount(Memory, pt.root) = refs.before + 1
          ELSE pt.panic
    /\ refs.op = "decrement" =>
          IF refs.before >= 1
          THEN ~pt.panic /\ ReferenceCount(Memory, pt.root) = refs.before - 1
          ELSE pt.panic

\* The count was raised at 255, and the call has panicked.
Wit_C24 ==
    /\ refs # None
    /\ refs.op = "increment"
    /\ refs.before = 255
    /\ pt.panic


(***************************************************************************)
(* SpecPageTwice: the page allocator used as in SpecPage, until a caller   *)
(* frees a block that is recorded as free or the list of a grain is asked  *)
(* to allocate a block that is not recorded as free.  The behaviour ends   *)
(* with that call.                                                         *)
(***************************************************************************)

\* No call of the two kinds has been made yet.
BeforeMisuse == plast.op \notin {"free_again", "allocate_exact"}

\* PageAllocator::deallocate_page of a block whose bit is set in the list
\* of its grain.
PageFreeAgain ==
    /\ ~pa.panic /\ BeforeMisuse
    /\ \E g \in 0 .. Depth(pa) : \E index \in pa.avail[g] :
          \E r \in {DeallocatePage(pa, index * (2 ^ g), g)} :
              /\ pa' = IF r.res = "Ok" THEN r.a ELSE Panicked(r.a)
              /\ plast' = [op |-> "free_again", page |-> index * (2 ^ g),
                           grain |-> g, before |-> pa]
    /\ UNCHANGED <<live, freedSingly>>

\* PageFreeList::allocate_page_exact of a block whose bit is clear in the
\* list of its grain.
PageAllocateExact ==
    /\ ~pa.panic /\ BeforeMisuse
    /\ \E g \in 0 .. Depth(pa) :
       \E index \in (0 .. (BitLen(pa, g) - 1)) \ pa.avail[g] :
          /\ pa' = AllocatePageExact(pa, g, index, index * (2 ^ g))
          /\ plast' = [op |-> "allocate_exact", page |-> index * (2 ^ g),
                       grain |-> g, before |-> pa]
    /\ UNCHANGED <<live, freedSingly>>

OutsidePage == <<threadVars, schedVars, slabVars, mmuVars, auxVars>>

NextPageTwice ==
    \/ (BeforeMisuse /\ PageAlloc /\ UNCHANGED OutsidePage)
    \/ (BeforeMisuse /\ PageFree /\ UNCHANGED OutsidePage)
    \/ (PageFreeAgain /\ UNCHANGED OutsidePage)
    \/ (PageAllocateExact /\ UNCHANGED OutsidePage)

SpecPageTwice == InitPage /\ [][NextPageTwice]_vars

\* The call has panicked and has left the bits and the rings as they were.
PanickedUntouched ==
    /\ pa.panic
    /\ pa.avail = plast.before.avail
    /\ pa.head = plast.before.head
    /\ pa.link = plast.before.link

PageRamBase == (NumPages \div 4) * PAGE_SIZE

\* The heap tops at init, in bytes above RAM_BASE.
BumpTops == {8, PAGE_SIZE, PAGE_SIZE + 8, 2 * PAGE_SIZE}

InitPageBump ==
    /\ \E top \in BumpTops :
       \E bytes_allocated \in {PageRamBase + top} :
          /\ pa = PageInit(NumPages, DivCeil(bytes_allocated, PAGE_SIZE))
          /\ bump = [heap_top |-> top,
                     pages_allocated |-> DivCeil(bytes_allocated, PAGE_SIZE)]
    /\ live = EmptyBag
    /\ freedSingly = {}
    /\ plast = [op |-> "init", page |-> NullPage, grain |-> 0]
    /\ ThreadIdle /\ SchedIdle /\ SlabIdle /\ MmuIdle
    /\ MutexIdle /\ ResourceIdle /\ RefIdle /\ TrapIdle
    /\ BitVecIdle

SpecPageBump == InitPageBump /\ [][NextPage]_vars

\* The pages the bump allocator has used in whole or in part.
BumpRegion == 0 .. (DivCeil(bump.heap_top, PAGE_SIZE) - 1)

\* The block of grain g at index lies clear of the pages of the bump
\* allocator.
ClearOfBump(index, g) == BlockPages(index * (2 ^ g), g) \cap BumpRegion = {}

\* C26: after init and after any sequence of allocate_pages and of
\* deallocations of blocks that were returned, no block of any grain that
\* overlaps the pages of the bump allocator is marked free or is on a free
\* ring, and allocate_pages returns no block that overlaps them.
Thm_C26 ==
    /\ \A g \in 0 .. Depth(pa) :
          \A index \in pa.avail[g] \cup Ring(pa, g) : ClearOfBump(index, g)
    /\ \A b \in BagToSet(live) : BlockPages(b[1], b[2]) \cap BumpRegion = {}
    /\ plast.op = "allocate" =>
          BlockPages(plast.page, plast.grain) \cap BumpRegion = {}

\* Every page init has freed is allocated to the caller.
Wit_C26 ==
    /\ bump # None
    /\ plast.op = "allocate"
    /\ \A g \in 0 .. Depth(pa) : pa.avail[g] = {}
    /\ UNION {BlockPages(b[1], b[2]) : b \in BagToSet(live)}
       = (bump.pages_allocated + 1) .. (NumPages - 1)

\* The page that holds the heap top, counted from RAM_BASE.
TopPage == bump.heap_top \div PAGE_SIZE

\* No free block has a free buddy: the free blocks are as large as they
\* can be.
Coalesced(a) ==
    \A g \in 0 .. (Depth(a) - 1) : \A index \in a.avail[g] :
        BuddyIndex(index) \notin a.avail[g]

\* The free pages are those above the page with the heap top and one page
\* more, or, the heap top being the first byte of a page the bump
\* allocator has not used, those above that page.
FreeAboveGuard(a) ==
    \/ FreePages(a) = (TopPage + 2) .. (NumPages - 1)
    \/ /\ bump.heap_top % PAGE_SIZE = 0
       /\ FreePages(a) = (TopPage + 1) .. (NumPages - 1)

\* C27: after PageAllocator::init the free pages are exactly the pages
\* above the page that holds the heap top of the bump allocator and one
\* guard page, one page above the pages of the bump allocator being left
\* out, every page at or below it is marked allocated, and the free pages
\* are joined into the largest buddy blocks.
CE_C27 ==
    bump # None /\ plast.op = "init" =>
        /\ FreeAboveGuard(pa)
        /\ Coalesced(pa)
        /\ \A g \in 0 .. Depth(pa) : Ring(pa, g) = pa.avail[g]


(***************************************************************************)
(* allocate_pages, step by step over SpecPage                              *)
(***************************************************************************)

\* The grains from g on whose list holds a block.
GrainsWithBlock(a, g) == {k \in g .. Depth(a) : a.avail[k] # {}}

\* The smallest of a set of grains that is not empty.
Smallest(grains) == CHOOSE k \in grains : \A j \in grains : k <= j

\* The step is a call of allocate_pages for grain g.
AllocateStep(g) ==
    /\ plast'.op \in {"allocate", "OutOfMemory", "panic"}
    /\ plast'.grain = g

\* The list of grain g holds a block: its head is unlinked and returned.
TakesHead(g) ==
    /\ plast'.op = "allocate"
    /\ plast'.page = pa.head[g]
    /\ pa'.avail = [pa.avail EXCEPT ![g] = @ \ {plast'.page \div (2 ^ g)}]

\* The list of grain g is empty and from is the smallest grain above g
\* whose list holds a block: the head of that list is taken, its upper
\* half is left free at each grain below down to g, and its lowest part is
\* returned.
SplitsFrom(g, from) ==
    /\ plast'.op = "allocate"
    /\ plast'.page = pa.head[from]
    /\ plast'.page % (2 ^ from) = 0
    /\ pa'.avail =
          [k \in DOMAIN pa.avail |->
             IF k = from THEN pa.avail[k] \ {plast'.page \div (2 ^ from)}
             ELSE IF k >= g /\ k < from
             THEN pa.avail[k] \cup {plast'.page \div (2 ^ k) + 1}
             ELSE pa.avail[k]]
    /\ \A k \in g .. (from - 1) :
          Cardinality(pa'.avail[k]) = Cardinality(pa.avail[k]) + 1

AllocatesAsClaimed(g) ==
    IF GrainsWithBlock(pa, g) = {}
    THEN /\ plast'.op = "OutOfMemory"
         /\ pa' = pa
    ELSE /\ IF pa.avail[g] # {}
            THEN TakesHead(g)
            ELSE SplitsFrom(g, Smallest(GrainsWithBlock(pa, g)))
         /\ Cardinality(FreePages(pa')) = Cardinality(FreePages(pa)) - 2 ^ g
         /\ \A k \in 0 .. Depth(pa) : Ring(pa', k) = pa'.avail[k]

\* C28: allocate_pages(n) with g = ceil(log2 n) unlinks and returns the
\* head of the list of grain g when that list is not empty; otherwise it
\* takes one block from the smallest grain above g whose list is not empty,
\* leaves exactly one new free block, the upper half, at each grain below
\* down to g, and returns the lowest part of 2^g pages, aligned to 2^g
\* pages; the free pages become fewer by exactly 2^g; when no grain from g
\* on has a free block it returns OutOfMemory and leaves all lists as they
\* were.
Thm_C28 ==
    [][\A g \in 0 .. Depth(pa) : AllocateStep(g) => AllocatesAsClaimed(g)]_vars

\* A single page was allocated by splitting a block of four pages: the
\* page above it and the two pages above those are the free blocks left.
Wit_C28 ==
    /\ plast.op = "allocate"
    /\ plast.grain = 0
    /\ plast.page % 4 = 0
    /\ pa.avail[0] = {plast.page + 1}
    /\ pa.avail[1] = {plast.page \div 2 + 1}
    /\ pa.avail[2] = {}


(***************************************************************************)
(* Sv39PageTable::activate (mmu.rs).  The table is one of each level: the  *)
(* root that Sv39PageTable::new makes, or a table of level 1 or 0 as       *)
(* new_subtable makes it, from an allocation that succeeded.               *)
(***************************************************************************)

\* satp with translation off, as the hart has it before the first
\* activation.
SatpBare == [mode |-> 0, asid |-> 0, ppn |-> 0]

\* activate_page_table: satp is written with the mode of Sv39, the address
\* space and the page of the table; the satp from before is returned.
ActivatePageTable(s, table, address_space) ==
    [satp |-> [mode |-> 8, asid |-> address_space, ppn |-> table],
     ret |-> s]

\* Sv39PageTable::activate on table t: the satp after the call.
Activate(s, t) == ActivatePageTable(s, t, 0).satp

ActivateLevels == 0 .. 2

\* The memory and the page of a table of the level given.
TableOfLevel(m, level) ==
    IF level = 2 THEN TableNew(m)
    ELSE With(LAMBDA a :
                 With(LAMBDA r :
                         [m |-> IF r.ok THEN r.m ELSE MmuPanic(r.m),
                          page |-> a.page],
                      MutRefNew(SetLevel(a.m, a.page, level), a.page)),
              AllocTable(m))

InitActivate ==
    /\ \E top \in {MmuHeapTop}, level \in ActivateLevels :
       \E r \in {TableOfLevel([tables |-> <<>>,
                               slab |-> [headers |-> <<>>, panic |-> FALSE],
                               pa |-> PageInit(NumPages, top),
                               panic |-> FALSE, pages |-> {},
                               boxes |-> {}], level)} :
          /\ pt = [tables |-> r.m.tables, root |-> r.page,
                   panic |-> r.m.panic]
          /\ slab = r.m.slab
          /\ pa = r.m.pa
          /\ live = SetToBag({<<p, 0>> : p \in r.m.pages})
          /\ slabLive = SetToBag({<<b, TableLayout>> : b \in r.m.boxes})
          /\ mres = [op |-> "new", v |-> None, p |-> None, level |-> level,
                     permissions |-> 0, res |-> "Ok", addr |-> None]
    /\ installed = {}
    /\ satp = SatpBare
    /\ slast = [op |-> "init", ptr |-> None, before |-> None]
    /\ s2 = None
    /\ freedSingly = {}
    /\ plast = [op |-> "init", page |-> NullPage, grain |-> 0]
    /\ ThreadIdle /\ SchedIdle /\ AuxIdle

\* A call of activate on the table.
MActivate ==
    /\ ~pt.panic
    /\ satp' = Activate(satp, pt.root)
    /\ mres' = [op |-> "activate", v |-> None, p |-> None,
                level |-> Level(Memory, pt.root), permissions |-> 0,
                res |-> "Ok", addr |-> None]
    /\ UNCHANGED <<pt, installed, pageVars, slabVars>>

\* The table is the root of a translation.
IsRoot == Level(Memory, pt.root) = 2

NextActivate ==
    \/ (IsRoot /\ MSetMap /\ UNCHANGED <<threadVars, schedVars, auxVars>>)
    \/ (IsRoot /\ MMap /\ UNCHANGED <<threadVars, schedVars, auxVars>>)
    \/ (MActivate /\ UNCHANGED <<threadVars, schedVars, auxVars>>)

SpecActivate == InitActivate /\ [][NextActivate]_vars

\* The table satp names is a root.
SatpNamesRoot ==
    satp.mode = 8 /\ satp.ppn = pt.root => IsRoot

\* activate on a table below the root is rejected.
RejectsBelowRoot ==
    mres.op = "activate" /\ mres.level < 2 => mres.res # "Ok"

WORD_BITS == 64

WordMax == 0 .. (WORD_BITS - 1)

\* AtomicBitVec::new_in: size bits, all 0.
BitVecNewIn(size) ==
    [inner |-> [i \in 1 .. DivCeil(size, WORD_BITS) |-> {}],
     length |-> size]

\* AtomicBitVec::get.
BitVecGet(v, index) ==
    IF index >= v.length THEN None
    ELSE IF index \div WORD_BITS + 1 \notin DOMAIN v.inner THEN None
    ELSE Some((index % WORD_BITS) \in v.inner[index \div WORD_BITS + 1])

\* AtomicBitVec::set: the vector and what is returned.
BitVecSet(v, index, val) ==
    IF index >= v.length THEN [v |-> v, ret |-> None]
    ELSE IF index \div WORD_BITS + 1 \notin DOMAIN v.inner
    THEN [v |-> v, ret |-> None]
    ELSE [v |-> [v EXCEPT !.inner[index \div WORD_BITS + 1] =
                             IF val THEN @ \cup {index % WORD_BITS}
                             ELSE @ \ {index % WORD_BITS}],
          ret |-> Some(val)]

\* usize::leading_ones: the number of 1 bits from the most significant bit
\* down to the first 0.
LeadingOnes(packed) ==
    Cardinality({k \in 1 .. WORD_BITS :
                    \A j \in (WORD_BITS - k) .. (WORD_BITS - 1) :
                        j \in packed})

\* AtomicBitVec::_find_false: the first word that is not usize::MAX decides.
FindFalse(v) ==
    IF \A i \in DOMAIN v.inner : v.inner[i] = WordMax THEN None
    ELSE With(LAMBDA i :
                 Some((i - 1) * 8 + WORD_BITS - 1
                      - LeadingOnes(v.inner[i])),
              CHOOSE i \in DOMAIN v.inner :
                  /\ v.inner[i] # WordMax
                  /\ \A j \in DOMAIN v.inner :
                        j < i => v.inner[j] = WordMax)

\* The lengths of the vectors made.
BitVecSizes == {1, 2, 3, 64, 65}

\* The indices used in the calls of get and set.
BitVecIndices == {0, 1, 2, 3, 62, 63, 64, 65}

\* The bits 0 .. n - 1.
BitsBelow(n) == 0 .. (n - 1)

\* The contents a vector of size bits is given by calls of set: every
\* content of a short vector; of a long one, the bits below a point and the
\* bits from a point on.
BitVecContents(size) ==
    IF size <= 3 THEN SUBSET BitsBelow(size)
    ELSE {BitsBelow(k) : k \in {0, 1, 2, 63, 64, size}}
         \cup {BitsBelow(size) \ BitsBelow(k) : k \in {1, 2, 63, 64}}

\* The vector of size bits after set(i, true) for every i of content.
BitVecWith(size, content) ==
    [inner |-> [i \in 1 .. DivCeil(size, WORD_BITS) |->
                   {o \in WordMax : (i - 1) * WORD_BITS + o \in content}],
     length |-> size]

InitBitVec ==
    /\ \E size \in BitVecSizes : \E content \in BitVecContents(size) :
          bvec = [v |-> BitVecWith(size, content),
                  last |-> [op |-> "new", index |-> None, ret |-> None]]
    /\ ThreadIdle /\ SchedIdle /\ PageIdle /\ SlabIdle /\ MmuIdle
    /\ BumpIdle /\ MutexIdle /\ ResourceIdle /\ RefIdle /\ TrapIdle

VGet ==
    \E index \in BitVecIndices :
        bvec' = [v |-> bvec.v,
                 last |-> [op |-> "get", index |-> Some(index),
                           ret |-> BitVecGet(bvec.v, index)]]

VSet ==
    \E index \in BitVecIndices, val \in BOOLEAN :
    \E r \in {BitVecSet(bvec.v, index, val)} :
        bvec' = [v |-> r.v,
                 last |-> [op |-> "set", index |-> Some(index),
                           ret |-> r.ret]]

VFindFalse ==
    bvec' = [v |-> bvec.v,
             last |-> [op |-> "find_false", index |-> None,
                       ret |-> FindFalse(bvec.v)]]

OutsideBitVec ==
    <<threadVars, schedVars, pageVars, slabVars, mmuVars, bump, mtx, rm,
      refs, ktrap>>

NextBitVec ==
    \/ (VGet /\ UNCHANGED OutsideBitVec)
    \/ (VSet /\ UNCHANGED OutsideBitVec)
    \/ (VFindFalse /\ UNCHANGED OutsideBitVec)

SpecBitVec == InitBitVec /\ [][NextBitVec]_vars

\* The indices of the vector whose bit is 0.
ClearBits(v) == {i \in BitsBelow(v.length) : BitVecGet(v, i) = Some(FALSE)}

\* The lowest index whose bit is 0, None when every bit is 1.
LowestClear(v) ==
    IF ClearBits(v) = {} THEN None
    ELSE Some(CHOOSE i \in ClearBits(v) : \A j \in ClearBits(v) : i <= j)

\* C30: for every content of the vector find_false returns the index of
\* the lowest bit that is 0 among the indices below the length, and None
\* exactly when every bit below the length is 1; the index returned is
\* below the length.
CE_C30 ==
    bvec.last.op = "find_false" =>
        /\ bvec.last.ret = LowestClear(bvec.v)
        /\ bvec.last.ret # None => bvec.last.ret[1] < bvec.v.length


(***************************************************************************)
(* Sv39PageTable::flat_map (mmu.rs), on the root table next to set_map and *)
(* map.                                                                    *)
(***************************************************************************)

\* set_physical_page_number_for_level: the entry, and whether the number
\* fits the field of the level.
SetPhysicalPageNumberForLevel(e, level, physical_page_number) ==
    CASE level = 2 ->
            IF physical_page_number > 2 ^ 26 - 1 THEN [ok |-> FALSE, e |-> e]
            ELSE [ok |-> TRUE, e |-> [e EXCEPT !.level_2 = physical_page_number]]
      [] level = 1 ->
            IF physical_page_number > NUM_ENTRIES - 1
            THEN [ok |-> FALSE, e |-> e]
            ELSE [ok |-> TRUE, e |-> [e EXCEPT !.level_1 = physical_page_number]]
      [] level = 0 ->
            IF physical_page_number > NUM_ENTRIES - 1
            THEN [ok |-> FALSE, e |-> e]
            ELSE [ok |-> TRUE, e |-> [e EXCEPT !.level_0 = physical_page_number]]
      [] OTHER -> [ok |-> FALSE, e |-> e]

\* The body of the loop without the page number written.
FlatEntryKeepingNumber(e, level, index) ==
    SetBit(
        [ApplyPermissions(SetBit(e, "valid", FALSE), 7)
         EXCEPT !.accessed = TRUE, !.dirty = TRUE],
        "valid", TRUE)

\* The body of the loop of flat_map for the entry e at index.
FlatEntry(e, level, index) ==
    SetBit(
        [ApplyPermissions(
             SetPhysicalPageNumberForLevel(SetBit(e, "valid", FALSE),
                                           level, index).e,
             7)
         EXCEPT !.accessed = TRUE, !.dirty = TRUE],
        "valid", TRUE)

\* Sv39PageTable::flat_map on table t.
FlatMap(m, t) ==
    IF m.panic THEN m
    ELSE IF \E index \in 0 .. (NUM_ENTRIES - 1) :
               ~SetPhysicalPageNumberForLevel(EntryAt(m.tables[t], index),
                                              Level(m, t), index).ok
    THEN MmuPanic(m)
    ELSE [m EXCEPT !.tables[t] =
             [index \in 0 .. (NUM_ENTRIES - 1) |->
                 FlatEntry(EntryAt(m.tables[t], index), Level(m, t), index)]]

\* A call of flat_map on the root table.
MFlatMap ==
    /\ ~pt.panic
    /\ MemoryBecomes(FlatMap(Memory, pt.root))
    /\ mres' = [op |-> "flat_map", v |-> None, p |-> None, level |-> 0,
                permissions |-> 0, res |-> "Ok", addr |-> None]
    /\ UNCHANGED <<installed, satp, slast, s2, freedSingly, plast>>

\* The mappings set_map installs before the model stops calling it.
MaxInstalled == 1

\* set_map is still called.
SetMapCalled == Cardinality(installed) < MaxInstalled

NextFlat ==
    \/ (SetMapCalled /\ MSetMap /\ UNCHANGED <<threadVars, schedVars, auxVars>>)
    \/ (MMap /\ UNCHANGED <<threadVars, schedVars, auxVars>>)
    \/ (MFlatMap /\ UNCHANGED <<threadVars, schedVars, auxVars>>)

SpecFlat == InitMmu /\ [][NextFlat]_vars

\* The virtual addresses translated after flat_map.
FlatVaddrs ==
    {Vaddr(hi, vpn2, vpn1, low[1], low[2]) :
        hi \in {0, 1, AllOnes}, vpn2 \in {0, 1, 255, 256, 511},
        vpn1 \in {0, 256}, low \in {<<0, 0>>, <<0, 4011>>, <<256, 0>>}}

\* A virtual address as a number, in the parts of a physical address.
AsPhysical(v) ==
    Paddr(v.hi \div 32, (v.hi % 32) * NUM_ENTRIES + v.vpn2, v.vpn1, v.vpn0,
          v.off)

\* The low 39 bits of a virtual address, as a physical address.
Low39(v) == Paddr(0, v.vpn2, v.vpn1, v.vpn0, v.off)

\* Every entry of the root is a valid leaf that maps its own index.
FlatEntries ==
    \A i \in 0 .. (NUM_ENTRIES - 1) :
        LET e == EntryAt(pt.tables[pt.root], i)
        IN  /\ IsBit(e, "valid") /\ ~IsPointer(e)
            /\ GetPhysicalPageNumberForLevel(e, 2) = Some(i)
            /\ IsBit(e, "readable") /\ IsBit(e, "writable")
            /\ IsBit(e, "executable")
            /\ e.accessed /\ e.dirty

\* map gives every canonical address its low 39 bits.
FlatTranslation ==
    \A v \in FlatVaddrs :
        ~UpperBitsMalformed(v) =>
            /\ Map(Memory, pt.root, v).res = "Ok"
            /\ Map(Memory, pt.root, v).addr = Some(Low39(v))
            /\ (v.hi = 0 /\ v.vpn2 < 256 =>
                   Map(Memory, pt.root, v).addr = Some(AsPhysical(v)))

\* The step is a call of flat_map that leaves the reserved bits of the
\* entries 0..7 of the root as they were.
MetadataKept ==
    mres'.op = "flat_map" =>
        /\ ~pt'.panic
        /\ \A i \in 0 .. 7 :
              EntryAt(pt'.tables[pt.root], i).reserved
                  = EntryAt(pt.tables[pt.root], i).reserved

\* C31: after flat_map on a table of level 2 every entry i is a valid leaf
\* whose page number of level 2 is i, with R, W, X, A and D set, so that map
\* gives every address below 2^38 itself and every canonical address its
\* low 39 bits; the level, the reference count, the lock and the parent's
\* flag in the reserved bits of the entries 0..7 are as before.
Thm_C31 ==
    /\ [](mres.op = "flat_map" => FlatEntries /\ FlatTranslation)
    /\ [][MetadataKept]_vars

\* flat_map was called on a root in which set_map had installed a mapping
\* to another address.
Wit_C31 ==
    /\ mres.op = "flat_map"
    /\ installed # {}
    /\ Level(Memory, pt.root) = 2
    /\ ReferenceCount(Memory, pt.root) = 0


(***************************************************************************)
(* What the trap handlers leave of the thread that trapped                 *)
(***************************************************************************)

\* The cause is an environment call.
IsEcall(cause) == ~cause[1] /\ cause[2] \in {8, 9}

\* The thread that trapped, after the handler.
Trapped == GetThread(procs', cur[1])

\* The thread that trapped with cause, the pc the trampoline returned and
\* a0 is left as the handlers of interrupts and syscalls leave it.
TrapOutcome(cause, pc, a0) ==
    /\ cause = <<TRUE, 5>> =>
          /\ kpc' = "choose"
          /\ Trapped.state = "Ready" /\ Trapped.pc = pc
    /\ IsEcall(cause) /\ a0 = 1 =>
          /\ kpc' = "choose"
          /\ Trapped.state = "Ready" /\ Trapped.pc = pc + 4
    /\ (IsEcall(cause) /\ a0 = 0) \/ cause \in {<<TRUE, 1>>, <<TRUE, 9>>} =>
          /\ kpc' = "choose"
          /\ Trapped.state = "Zombie" /\ Trapped.pc = pc

\* C32: a thread that returns from its activation with a timer interrupt
\* becomes Ready with the pc the trampoline returned; with an environment
\* call whose a0 is YIELD it becomes Ready with that pc advanced by 4; with
\* an environment call whose a0 is EXIT, or with a software or an external
\* interrupt, it becomes Zombie and its pc is not advanced.
Thm_C32 ==
    [][\A cause \in Causes, pc \in PcValues :
          \A a0 \in SyscallCodes(cause) :
              KTrapWith(cause, pc, a0) => TrapOutcome(cause, pc, a0)]_vars

\* The loop is about to choose; one thread has yielded and is Ready behind
\* its environment call, another has ended as a Zombie at the pc it
\* trapped at.
Wit_C32 ==
    /\ kpc = "choose"
    /\ \E h \in Threads(procs), g \in Threads(procs) :
          /\ GetThread(procs, h).state = "Ready"
          /\ GetThread(procs, h).pc - 4 \in PcValues
          /\ GetThread(procs, g).state = "Zombie"
          /\ GetThread(procs, g).pc \in PcValues


(***************************************************************************)
(* The two places of the scheduling loop that meet a thread in a state     *)
(* they do not expect (main.rs, thread.rs), driven with the tables the     *)
(* operations on threads produce.                                          *)
(***************************************************************************)

\* The loop activates the thread it was given: on an error it prints the
\* message and breaks out of the loop.
ZLoopActivate ==
    \E h \in TableThreads :
        \E r \in {ActivateEnter(GetThread(procs, h))} :
            /\ procs' = SetThread(procs, h, r.tcb)
            /\ kpc' = [op |-> "loop_activate", h |-> Some(h),
                       res |-> IF r.res = "Ok" THEN "Ok" ELSE "break"]

\* resolve_interrupt_or_kill as the handlers of the loop call it; the
\* panic of kill ends the kernel and is no step.
ZResolveOrKill ==
    \E h \in TableThreads, synchronous \in BOOLEAN :
        \E r \in {ResolveInterruptOrKill(GetThread(procs, h), synchronous)} :
            /\ ~r.panic
            /\ procs' = SetThread(procs, h, r.tcb)
            /\ kpc' = [op |-> "resolve_interrupt_or_kill", h |-> Some(h),
                       res |-> IF GetThread(procs, h).state = "Interrupted"
                               THEN "Ok" ELSE "ThreadNotInterrupted"]

NextMismatch ==
    \/ ZStep(ZChoose)
    \/ ZStep(ZActivate)
    \/ ZStep(ZTrap)
    \/ ZStep(ZConsider)
    \/ ZStep(ZResolve)
    \/ ZStep(ZKill)
    \/ ZStep(ZLoopActivate)
    \/ ZStep(ZResolveOrKill)

SpecMismatch == InitTable /\ [][NextMismatch]_vars

\* A thread that was not Interrupted when the handler resolved it has been
\* killed, and the loop goes on.
ResolveMismatchKills ==
    kpc.op = "resolve_interrupt_or_kill" /\ kpc.res = "ThreadNotInterrupted"
        => IsZombie(procs, kpc.h[1])

\* A thread that was not Ready when the loop activated it has been killed,
\* and the loop goes on.
ActivateMismatchKills ==
    kpc.op = "loop_activate" /\ kpc.res # "Ok"
        => /\ IsZombie(procs, kpc.h[1])
           /\ kpc.res # "break"

SlotCount(h) == FreeLinks \div h.slot_size

\* The head is absent only when every slot is allocated, and in_use plus
\* the slots on the free ring is the number of slots.
RingCounts(h) ==
    /\ h.offset = None => h.in_use = SlotCount(h)
    /\ h.in_use + Cardinality(FreeSlots(h)) = SlotCount(h)

\* allocate has returned null only on a slab all of whose slots are
\* allocated.
NullOnlyWhenFull ==
    slast.op = "null" /\ slast.before # None =>
        slast.before[1].in_use = SlotCount(slast.before[1])

\* C34: in every reachable state of a slab the head is absent only when
\* every slot of the page is allocated: in_use plus the number of slots on
\* the free ring is the number of slots of the slab, so that allocate
\* returns null only when in_use is the number of slots.
CE_C34 ==
    /\ \A i \in 1 .. Len(slab.headers) : RingCounts(slab.headers[i])
    /\ NullOnlyWhenFull


(***************************************************************************)
(* The accessors of the single bits of one page-table entry (mmu.rs,       *)
(* impl_bit_access).  pt holds the entry, mres the last call and the entry *)
(* it was made on.                                                         *)
(***************************************************************************)

\* The fields impl_bit_access is instantiated for.
BitNames ==
    {"valid", "readable", "writable", "executable", "user_mode_accessible",
     "global", "napot"}

InitEntry ==
    /\ pt = [entry |-> ZeroEntry]
    /\ mres = [op |-> "new", name |-> "valid", b |-> FALSE,
               from |-> ZeroEntry]
    /\ installed = {}
    /\ satp = None
    /\ ThreadIdle /\ SchedIdle /\ PageIdle /\ SlabIdle /\ AuxIdle

\* A call of set_<name>(b) on the entry.
ESetBit ==
    \E name \in BitNames, b \in BOOLEAN :
        /\ pt' = [entry |-> SetBit(pt.entry, name, b)]
        /\ mres' = [op |-> "set", name |-> name, b |-> b, from |-> pt.entry]
        /\ UNCHANGED <<installed, satp>>

NextEntry ==
    ESetBit /\ UNCHANGED <<threadVars, schedVars, pageVars, slabVars, auxVars>>

SpecEntry == InitEntry /\ [][NextEntry]_vars

\* The fields of the entry other than name are as they were before the
\* call.
OthersKept ==
    \A f \in DOMAIN pt.entry : f # mres.name => pt.entry[f] = mres.from[f]

\* C35: for each of the accessors of a single bit (valid, readable,
\* writable, executable, user, global, napot) and each boolean b,
\* set_<bit>(b) makes is_<bit>() return b and leaves every other bit of the
\* entry as it was; set_valid(false) on a valid entry makes it invalid.
CE_C35 ==
    mres.op = "set" =>
        /\ IsBit(pt.entry, mres.name) = mres.b
        /\ OthersKept


(***************************************************************************)
(* set_map calls that return an error (SpecFlat)                           *)
(***************************************************************************)

\* The memory after the step.
MemoryAfter ==
    [tables |-> pt'.tables, slab |-> slab', pa |-> pa', panic |-> pt'.panic,
     pages |-> {}, boxes |-> {}]

\* The step is a call of set_map that returned an error.
SetMapFailed ==
    /\ mres'.op = "set_map"
    /\ mres'.res \notin {"Ok", "panic"}

\* The bits of an entry that decide a translation.
Translating(e) ==
    [valid |-> e.valid, readable |-> e.readable, writable |-> e.writable,
     executable |-> e.executable, level_0 |-> e.level_0,
     level_1 |-> e.level_1, level_2 |-> e.level_2]

\* The addresses translated before and after a call that failed: those
\* set_map is called with, and addresses next to them.
FailedVaddrs ==
    SetMapVaddrs
    \cup {Vaddr(0, 0, 256, 0, 4011), Vaddr(0, 0, 0, 256, 0),
          Vaddr(0, 256, 0, 0, 0)}

\* map gives every address what it gave before the step.
SameTranslation ==
    \A v \in FailedVaddrs :
        /\ Map(MemoryAfter, pt.root, v).res = Map(Memory, pt.root, v).res
        /\ Map(MemoryAfter, pt.root, v).addr = Map(Memory, pt.root, v).addr

\* The tables are those from before the step, and their entries translate
\* as before.
SameTables ==
    /\ DOMAIN pt'.tables = DOMAIN pt.tables
    /\ \A t \in DOMAIN pt.tables :
       \A i \in DOMAIN pt.tables[t] \cup DOMAIN pt'.tables[t] :
          Translating(EntryAt(pt'.tables[t], i))
              = Translating(EntryAt(pt.tables[t], i))
    /\ slabLive' = slabLive

\* C36: whenever set_map returns an error the translation is unchanged:
\* map gives every virtual address the result it gave before the call, no
\* entry of a table that existed before has changed its valid bit, its page
\* number or its permissions, and a subtable made during the call has been
\* freed.
Thm_C36 == [][SetMapFailed => SameTranslation /\ SameTables]_vars

\* set_map has been refused on an address that the table already translates.
Wit_C36 ==
    /\ mres.op = "set_map"
    /\ mres.res = "AddressAlreadyInUse"
    /\ Map(Memory, pt.root, mres.v[1]).res = "Ok"


(***************************************************************************)
(* Handle locks around choose_next_thread (SpecSched)                      *)
(***************************************************************************)

\* The threads of the table whose handle lock is held.
Locked(tbl) == {h \in Threads(tbl) : GetThread(tbl, h).handle_lock}

\* The locks held when choose_next_thread has returned handle.
HeldFor(handle) == IF handle = None THEN {} ELSE {handle[1]}

\* What choose_next_thread leaves behind when it is called in this state.
ChooseLeavesOneLock ==
    kpc = "choose" =>
        \E r \in {ChooseNextThread(procs)} : Locked(r.tbl) = HeldFor(r.handle)

\* The handles that exist are the one the loop body holds, if any.
OneHandlePerThread ==
    Locked(procs) = IF kpc \in {"running", "panic"} THEN HeldFor(cur) ELSE {}

\* C37: when choose_next_thread returns a handle, the handle lock of the
\* returned thread is the only one held, and when it returns None no handle
\* lock is held; the only handle in existence is the one the loop body
\* holds, and every scheduling round starts with all handle locks free.
Thm_C37 ==
    /\ ChooseLeavesOneLock
    /\ OneHandlePerThread
    /\ (kpc = "choose" => Locked(procs) = {})

\* A round starts with three threads after two activations, and
\* choose_next_thread returns a thread other than the first while another
\* Ready thread of nonzero priority has been considered too.
Wit_C37 ==
    /\ kpc = "choose"
    /\ Len(order) >= 2
    /\ Cardinality(Threads(procs)) >= 3
    /\ \E r \in {ChooseNextThread(procs)} :
          /\ r.handle # None
          /\ r.handle[1] # <<0, 0>>
          /\ \E h \in Threads(procs) :
                /\ h # r.handle[1]
                /\ GetThread(procs, h).state = "Ready"
                /\ GetThread(procs, h).priority > 0


(***************************************************************************)
(* SpecPreempt: the scheduling loop in which every activated thread comes  *)
(* back through the timer interrupt or a yield. kmain's loop is sequential *)
(* code and activate arms the timer before it jumps into the thread, so a  *)
(* round that can start does start and a running thread does trap.         *)
(***************************************************************************)

\* The traps that hand the thread back Ready: the supervisor timer
\* interrupt, and the environment call with a0 = 1 (yield).
Preemptions == {<<<<TRUE, 5>>, 0>>, <<<<FALSE, 8>>, 1>>, <<<<FALSE, 9>>, 1>>}

KTrapPreempt ==
    \E c \in Preemptions, pc \in PcValues :
        /\ KTrapWith(c[1], pc, c[2])
        /\ ktrap' = [ktrap EXCEPT !.cause = Some(c[1])]

NextPreempt ==
    \/ KStep(KSpawn)
    \/ KStep(KEnterLoop)
    \/ KStep(KScheduleLoop /\ UNCHANGED <<order, sinceRun>>)
    \/ (KTrapPreempt /\ UNCHANGED OutsideSched)

SpecPreempt ==
    /\ InitSchedTrap
    /\ [][NextPreempt]_vars
    /\ WF_vars(KStep(KScheduleLoop /\ UNCHANGED <<order, sinceRun>>))
    /\ WF_vars(KTrapPreempt /\ UNCHANGED OutsideSched)

\* The loop runs and thread h waits Ready with a priority of at least 1.
WaitsReady(h) ==
    /\ kpc \in {"choose", "running"}
    /\ Live(procs, h)
    /\ GetThread(procs, h).state = "Ready"
    /\ GetThread(procs, h).priority >= 1

\* C38: no starvation: while the scheduling loop keeps running, with every
\* activated thread preempted by the timer or yielding, a Ready thread of
\* priority 1 or more is eventually activated, whatever the priorities of
\* the other threads.
Thm_C38 == \A h \in Handles : WaitsReady(h) ~> (cur = Some(h))

\* A thread of the lowest nonzero priority runs after earlier traps while
\* two threads of the highest priority are Ready.
Wit_C38 ==
    /\ kpc = "running"
    /\ ktrap.cause # None
    /\ GetThread(procs, cur[1]).priority = 1
    /\ Cardinality({g \in ReadyThreads(procs) :
                       GetThread(procs, g).priority = MaxPriority}) = 2


(***************************************************************************)
(* Thread states around the scheduling loop (SpecSched)                    *)
(***************************************************************************)

\* Where choose_next_thread is called every thread is Ready or Zombie.
ReadyOrZombieAtChoose ==
    kpc = "choose" =>
        \A h \in Threads(procs) :
            GetThread(procs, h).state \in {"Ready", "Zombie"}

\* The thread choose_next_thread returns is Ready and its activation
\* succeeds.
ReturnedIsReady ==
    kpc = "choose" =>
        \A r \in {ChooseNextThread(procs)} :
            r.handle # None =>
               /\ GetThread(r.tbl, r.handle[1]).state = "Ready"
               /\ ActivateEnter(GetThread(r.tbl, r.handle[1])).res = "Ok"

\* The thread the handler is given is Interrupted, and killing it does not
\* panic.
HandlerSeesInterrupted ==
    kpc = "running" =>
        \A pc \in PcValues :
           \A t \in {ActivateReturn(GetThread(procs, cur[1]), pc)} :
              /\ t.state = "Interrupted"
              /\ ~Kill(t).panic

\* A handler that panicked did so on a cause it does not know: the thread
\* is left Interrupted, where the panic of kill leaves a thread Running.
PanicNotFromKill ==
    kpc = "panic" /\ cur # None =>
        GetThread(procs, cur[1]).state = "Interrupted"

\* C39: in the scheduling loop every thread is Ready or Zombie wherever
\* choose_next_thread is called; the thread it returns is Ready, so its
\* activation never fails with ThreadNotReady; and the thread is
\* Interrupted when its trap handler runs, so the handler's kill never
\* panics on a Running thread.
Thm_C39 ==
    /\ ReadyOrZombieAtChoose
    /\ ReturnedIsReady
    /\ HandlerSeesInterrupted
    /\ PanicNotFromKill

\* A round starts with a Zombie, a Ready thread that has run and a Ready
\* thread that is returned next.
Wit_C39 ==
    /\ kpc = "choose"
    /\ \E h \in Threads(procs) : GetThread(procs, h).state = "Zombie"
    /\ \E h \in Threads(procs) :
          /\ GetThread(procs, h).state = "Ready"
          /\ GetThread(procs, h).pc # EntryPc
    /\ ChooseNextThread(procs).handle # None


(***************************************************************************)
(* SpecSlabAny: the slab allocator of SpecSlab used with layouts whose     *)
(* slot size does not divide the length of page_memory, or exceeds it.     *)
(***************************************************************************)

\* Slot sizes 400 (not a divisor of 1024), 512 (a divisor) and 2048 (more
\* than a page).
AnyLayouts ==
    {[size |-> 1600, align |-> 8], [size |-> 2048, align |-> 16],
     [size |-> 8192, align |-> 8]}

SAllocAny == SAllocIn(AnyLayouts)

NextSlabAny ==
    \/ (SAllocAny /\ UNCHANGED <<threadVars, schedVars, mmuVars, auxVars>>)
    \/ (SDealloc /\ UNCHANGED <<threadVars, schedVars, mmuVars, auxVars>>)

SpecSlabAny == InitSlab /\ [][NextSlabAny]_vars

\* The free ring of the slab SlabHeader::new makes for the slot size of h
\* has floor(FreeLinks / slot_size) slots.
FreshRingIsFloor(h) ==
    Cardinality(FreeSlots(SlabHeaderNew(h.slot_size, h.page)))
        = FreeLinks \div h.slot_size

\* The slot of a pointer the caller holds ends inside the page.
InsidePage(b) == b[1][2] + GetSlotSize(b[2]) <= FreeLinks

\* C40: for every slot size the slab allocator accepts, dividing the
\* number of records of a page or not, a fresh slab's free ring has exactly
\* floor(records per page / slot size) slots, and every slot handed out by
\* allocate lies inside the slab's page: its index plus the slot size does
\* not exceed the number of records of the page.
CE_C40 ==
    /\ \A i \in 1 .. Len(slab.headers) : FreshRingIsFloor(slab.headers[i])
    /\ \A b \in BagToSet(slabLive) : InsidePage(b)

====
